---------------------------- MODULE Spec2Model ----------------------------
(***************************************************************************)
(* ai-wot: candidate store (lib/candidates.js) and relay aggregation       *)
(* (lib/wot.js).                                                           *)
(*                                                                         *)
(* Specification Spec is the CandidateStore: one action per public method, *)
(* with confirmAndPublish split at its only real suspension point (the     *)
(* relay fan-out inside publishAttestation).                               *)
(*                                                                         *)
(* Specification SpecQuery is the read side of lib/wot.js: relays that     *)
(* hold whatever events peers sent them, queryAttestations with its        *)
(* revocation join, and calculateTrustScore with its memoised recursion    *)
(* into the scoring kernel.                                                *)
(***************************************************************************)
EXTENDS Integers, Sequences, FiniteSets, TLC

\* ------------------------------------------------------------------------
\* Bounds of the model
\* ------------------------------------------------------------------------

\* Date.now() runs over 0..MaxTime.
MaxTime == 2

\* At most this many events are signed by confirmAndPublish in one run.
MaxEvents == 1

\* ------------------------------------------------------------------------
\* Constants of the program
\* ------------------------------------------------------------------------

\* The six recognised attestation types; NEGATIVE_TYPES is the negative half.
VALID_TYPES ==
  {"service-quality", "work-completed", "identity-continuity",
   "general-trust", "dispute", "warning"}

NEGATIVE_TYPES == {"dispute", "warning"}

\* Relay list handed to publishToRelays (opts.relays || RELAYS).
RELAYS == {"r1", "r2"}

\* ------------------------------------------------------------------------
\* Input domains
\* ------------------------------------------------------------------------

\* Candidate ids: a caller-supplied candidate.id or 8 random bytes in hex.
CandIds == {"c1", "c2"}

\* The candidates handed to add(): one well-formed, and one for each way a
\* candidate can be unfit for add() or for publishAttestation(). "" is an
\* absent (falsy) field, "pk10" a key of the wrong length, " " a comment of
\* whitespace only.
AddInputs ==
  { [type |-> "service-quality", targetPubkey |-> "pk64", comment |-> "c"],
    [type |-> "bogus",           targetPubkey |-> "pk64", comment |-> "c"],
    [type |-> "service-quality", targetPubkey |-> "pk10", comment |-> "c"],
    [type |-> "dispute",         targetPubkey |-> "pk64", comment |-> " "],
    [type |-> "",                targetPubkey |-> "pk64", comment |-> "c"],
    [type |-> "service-quality", targetPubkey |-> "",     comment |-> "c"],
    [type |-> "service-quality", targetPubkey |-> "pk64", comment |-> ""] }

\* The edits handed to confirm() and confirmAndPublish(): none, a comment
\* with a rating, an unknown type. "" and "null" are absent fields.
EditInputs ==
  { [comment |-> "",  type |-> "",        rating |-> "null"],
    [comment |-> "E", type |-> "",        rating |-> "5"],
    [comment |-> "",  type |-> "bogus",   rating |-> "null"] }

\* String.prototype.length of the modelled strings.
StrLen(s) ==
  IF s = "pk64" THEN 64 ELSE IF s = "pk10" THEN 10 ELSE IF s = "" THEN 0 ELSE 1

\* String.prototype.trim of the modelled comments.
Trim(s) == IF s = " " THEN "" ELSE s

\* null for publishedEventId; signed events are numbered from 1.
NoEvent == 0

\* An event id a caller hands to markPublished directly.
ExternalEvent == MaxEvents + 1

\* null for metadata.rating / metadata.rejectReason / eventRef.
Null == "null"

VARIABLES
  candidates,   \* this._candidates: insertion-ordered Map, as a sequence
  now,          \* Date.now()
  onPersist,    \* opts.onPersist: "unset", "set", or "throws" (a callback
                \* that raises)
  persisted,    \* the list the persistence callback last wrote
  inflight,     \* confirmAndPublish calls suspended in publishToRelays
  eventSeq,     \* number of events signed so far (finalizeEvent)
  ret,          \* the last completed operation and what it returned
  maxAge,       \* this.maxAge = opts.maxAge || 86_400_000
  maxCandidates,\* this.maxCandidates = opts.maxCandidates || 1000
  net,          \* the events the relays hold and answer queries from
  last,         \* the last relay query or score computed, with its result
  calc,         \* the last call of a pure function, with its arguments, or
                \* the state of a watcher
  fan,          \* one queryRelays call: its per-relay tasks, Map and promise
  pub           \* one publishToRelays call: its per-relay tasks and promise

config == <<onPersist, maxAge, maxCandidates>>

\* State of the candidate store, and state of the relay aggregation.
storeVars == <<candidates, persisted, inflight, eventSeq, ret, config>>

queryVars == <<net, last>>

\* State of the two relay fan-outs.
relayVars == <<fan, pub>>

vars == <<candidates, now, persisted, inflight, eventSeq, ret, config, net, last,
          fan, pub, calc>>

\* ------------------------------------------------------------------------
\* The Map this._candidates
\* ------------------------------------------------------------------------

Has(cands, id) == \E i \in DOMAIN cands : cands[i].id = id

IndexOf(cands, id) == CHOOSE i \in DOMAIN cands : cands[i].id = id

\* Map.prototype.get(id) || null, as a set of at most one record.
Get(cands, id) == {cands[i] : i \in {j \in DOMAIN cands : cands[j].id = id}}

\* Map.prototype.set: an existing key keeps its position.
MapSet(cands, rec) ==
  IF Has(cands, rec.id)
    THEN [cands EXCEPT ![IndexOf(cands, rec.id)] = rec]
    ELSE Append(cands, rec)

\* Map.prototype.delete
MapDelete(cands, id) == SelectSeq(cands, LAMBDA c : c.id # id)

\* export(): [...this._candidates.values()]
Export(cands) == cands

\* _persist(): the callback, when configured, receives export(); one that
\* raises has written nothing.
Persist(cands, old) == IF onPersist = "set" THEN Export(cands) ELSE old

\* _persist() without its try/catch: the callback's exception escapes.
PersistEscapesUncaught(cb) == cb = "throws"

\* Does an exception of the persistence callback leave _persist()?  The call
\* sits in try { ... } catch (_) {}.
PersistEscapes(cb) == FALSE

\* ------------------------------------------------------------------------
\* Internal helpers
\* ------------------------------------------------------------------------

\* _expireOld() that sweeps nothing.
ExpireOldNone(cands, t) == cands

\* _expireOld(): pending candidates created before the cutoff become expired.
ExpireOld(cands, t) ==
  [i \in DOMAIN cands |->
     IF cands[i].status = "pending" /\ cands[i].createdAt < t - maxAge
       THEN [cands[i] EXCEPT !.status = "expired", !.updatedAt = t]
       ELSE cands[i]]

\* First index, in a stable ascending sort by createdAt, among the set S.
OldestIn(cands, S) ==
  CHOOSE i \in S :
    \A j \in S :
      \/ cands[i].createdAt < cands[j].createdAt
      \/ (cands[i].createdAt = cands[j].createdAt /\ i <= j)

\* _evictOldest() that deletes nothing.
EvictNone(cands) == cands

\* _evictOldest(): the oldest non-pending candidate, else the oldest one.
EvictOldest(cands) ==
  LET nonPending == {i \in DOMAIN cands : cands[i].status # "pending"}
  IN  IF nonPending # {}
        THEN MapDelete(cands, cands[OldestIn(cands, nonPending)].id)
        ELSE IF Len(cands) > 0
          THEN MapDelete(cands, cands[OldestIn(cands, DOMAIN cands)].id)
          ELSE cands

\* add() with its check of the required fields left out.
AddValidAlways(type, target, comment) == TRUE

\* add(): candidate.type, .targetPubkey and .comment must all be truthy.
AddValid(type, target, comment) == type # "" /\ target # "" /\ comment # ""

\* The record add() stores.
Stored(id, type, target, comment, t) ==
  [id |-> id, status |-> "pending", type |-> type, targetPubkey |-> target,
   comment |-> comment, eventRef |-> Null, source |-> "manual",
   rating |-> Null, rejectReason |-> Null,
   createdAt |-> t, updatedAt |-> t, publishedEventId |-> NoEvent]

\* The counts object stats() starts from.
NoCounts ==
  [pending |-> 0, confirmed |-> 0, rejected |-> 0, published |-> 0,
   expired |-> 0, total |-> 0]

\* What an operation returned (res: "ok", "null", "throw" or "suspended"),
\* and which callbacks it invoked on the way.  ids are the candidates
\* list() or publishAllConfirmed() enumerated, and for add() the ones it
\* evicted; counts is the result of stats().
Ret(op, id, res, err, accepted, ids, errs) ==
  [op |-> op, id |-> id, res |-> res, err |-> err, accepted |-> accepted,
   ids |-> ids, errs |-> errs, counts |-> NoCounts,
   persistCalled |-> FALSE, notified |-> FALSE]

Returned(op, id, res) == Ret(op, id, res, "", 0, {}, {})

\* The outcome of an operation that went through _persist().
Persisting(r) ==
  IF onPersist # "unset" /\ PersistEscapes(onPersist)
    THEN Ret(r.op, r.id, "throw", "persist", 0, {}, {})
    ELSE [r EXCEPT !.persistCalled = (onPersist # "unset")]

\* ------------------------------------------------------------------------
\* confirm / reject / markPublished as functions of the store
\* ------------------------------------------------------------------------

\* confirm(id, edits) guarded only by the id being known.
ConfirmOkAnyStatus(cands, id) == Has(cands, id)

\* confirm(id, edits) that takes a confirmed candidate as well.
ConfirmOkConfirmedToo(cands, id) ==
  Has(cands, id) /\ cands[IndexOf(cands, id)].status \in {"pending", "confirmed"}

\* confirm(id, edits) that looks at the age of the candidate first.
ConfirmOkUnexpired(cands, id) ==
  /\ Has(cands, id)
  /\ cands[IndexOf(cands, id)].status = "pending"
  /\ ~(cands[IndexOf(cands, id)].createdAt < now - maxAge)

\* confirm(id, edits) succeeds only on a pending candidate.
ConfirmOk(cands, id) == Has(cands, id) /\ cands[IndexOf(cands, id)].status = "pending"

\* confirm() with the status assignment left out.
ConfirmedStatusKept(c, eComment, eType, eRating, t) ==
  [c EXCEPT !.updatedAt = t,
            !.comment = IF eComment # "" THEN eComment ELSE @,
            !.type = IF eType # "" THEN eType ELSE @,
            !.rating = IF eRating # Null THEN eRating ELSE @]

\* The body of confirm() past its guard.
Confirmed(c, eComment, eType, eRating, t) ==
  [c EXCEPT !.status = "confirmed",
            !.updatedAt = t,
            !.comment = IF eComment # "" THEN eComment ELSE @,
            !.type = IF eType # "" THEN eType ELSE @,
            !.rating = IF eRating # Null THEN eRating ELSE @]

confirm(cands, id, eComment, eType, eRating, t) ==
  IF ConfirmOk(cands, id)
    THEN MapSet(cands, Confirmed(cands[IndexOf(cands, id)], eComment, eType, eRating, t))
    ELSE cands

\* The body of reject() past its guard.
Rejected(c, reason, t) ==
  [c EXCEPT !.status = "rejected", !.updatedAt = t, !.rejectReason = reason]

\* markPublished(id, eventId): guarded only by the id being known.
markPublished(cands, id, eventId, t) ==
  IF Has(cands, id)
    THEN MapSet(cands, [cands[IndexOf(cands, id)] EXCEPT
                          !.status = "published",
                          !.publishedEventId = eventId,
                          !.updatedAt = t])
    ELSE cands

\* publishAttestation without the check of a negative type's comment.
PublishErrorCommentUnchecked(type, target, comment, signOk) ==
  IF type \notin VALID_TYPES THEN "type"
  ELSE IF target = "" \/ StrLen(target) # 64 THEN "key"
  ELSE IF ~signOk THEN "sign"
  ELSE ""

\* publishAttestation's checks, in order; "" when the event is built.
PublishError(type, target, comment, signOk) ==
  IF type \notin VALID_TYPES THEN "type"
  ELSE IF target = "" \/ StrLen(target) # 64 THEN "key"
  ELSE IF type \in NEGATIVE_TYPES /\ (comment = "" \/ StrLen(Trim(comment)) = 0)
    THEN "comment"
  ELSE IF ~signOk THEN "sign"
  ELSE ""

\* ------------------------------------------------------------------------
\* list()
\* ------------------------------------------------------------------------

\* filter.limit || 50
DefaultLimit == 50

RECURSIVE SortDesc(_)
\* results.sort((a, b) => b.createdAt - a.createdAt): stable, newest first.
SortDesc(s) ==
  IF s = <<>> THEN <<>>
  ELSE LET i == CHOOSE k \in DOMAIN s :
                  /\ \A j \in DOMAIN s : s[j].createdAt <= s[k].createdAt
                  /\ \A j \in 1..(k - 1) : s[j].createdAt < s[k].createdAt
       IN  <<s[i]>> \o SortDesc(SubSeq(s, 1, i - 1) \o SubSeq(s, i + 1, Len(s)))

\* What list({status}) returns, on a store that _expireOld has already swept;
\* status "" is a filter without a status.
ListByStatus(cands, status) ==
  LET sorted == SortDesc(SelectSeq(cands,
                           LAMBDA c : status = "" \/ c.status = status))
  IN  SubSeq(sorted, 1, IF Len(sorted) < DefaultLimit THEN Len(sorted) ELSE DefaultLimit)

\* The status filters handed to list().
ListFilters == {"", "pending"}

\* counts[c.status]++ and counts.total++ over the store.
CountStatuses(cands) ==
  [k \in DOMAIN NoCounts |->
     Cardinality({i \in DOMAIN cands : k = "total" \/ cands[i].status = k})]

\* ------------------------------------------------------------------------
\* load()
\* ------------------------------------------------------------------------

\* A candidate as an earlier run exported it: created at time 0 by the
\* 'dvm' source and left in the given status.
Saved(id, status) ==
  [Stored(id, "service-quality", "pk64", "c", 0) EXCEPT
     !.status = status,
     !.source = "dvm",
     !.publishedEventId = IF status = "published" THEN ExternalEvent ELSE NoEvent]

\* The lists handed to load().
LoadInputs ==
  { <<Saved("c1", "rejected")>>,
    <<Saved("c1", "published")>>,
    <<Saved("c1", "expired")>>,
    <<Saved("c1", "pending")>> }

RECURSIVE load(_, _)
\* load(list): this._candidates.set(c.id, c) for each c of the list.
load(cands, list) ==
  IF list = <<>> THEN cands
  ELSE load(MapSet(cands, Head(list)), Tail(list))

\* ------------------------------------------------------------------------
\* publishAllConfirmed's loop over the listed candidates
\* ------------------------------------------------------------------------

RECURSIVE PublishLoop(_, _, _, _)
\* One confirmAndPublish(c.id, secretKey, {edits: {}}) per listed candidate.
\* st = [cands, persisted, seq, tasks, errs]: a call whose confirm() returns
\* null adds nothing; one whose publish step throws is recorded in errs; one
\* that signs its event goes to the relays.
PublishLoop(queue, st, signOk, t) ==
  IF queue = <<>> THEN st
  ELSE LET id == Head(queue).id
       IN  IF ~ConfirmOk(st.cands, id)
             THEN PublishLoop(Tail(queue), st, signOk, t)
             ELSE
               LET after == confirm(st.cands, id, "", "", Null, t)
                   c     == after[IndexOf(after, id)]
                   err   == PublishError(c.type, c.targetPubkey, c.comment, signOk)
                   base  == [st EXCEPT !.cands = after,
                                       !.persisted = Persist(after, st.persisted)]
               IN  IF err # ""
                     THEN PublishLoop(Tail(queue),
                                      [base EXCEPT !.errs = @ \cup {id}], signOk, t)
                     ELSE PublishLoop(Tail(queue),
                                      [base EXCEPT !.seq = @ + 1,
                                                   !.tasks = @ \cup {[id |-> id, event |-> st.seq + 1]}],
                                      signOk, t)


\* ------------------------------------------------------------------------
\* Relay aggregation (lib/wot.js): events, relays and queries
\* ------------------------------------------------------------------------

\* Public keys of the peers.
Keys == {"A", "B", "K"}

NAMESPACE == "ai.wot"

\* A kind-1985 label event: author pubkey, 'p' tag, 'l' type tag in the
\* 'L' namespace, content.  sigOk tells whether verifyEvent would accept it.
Attestation(id, pubkey, target, type, created_at, content, sigOk) ==
  [id |-> id, kind |-> 1985, pubkey |-> pubkey, p |-> target, l |-> type,
   L |-> NAMESPACE, created_at |-> created_at, content |-> content,
   e |-> {}, k |-> "", msats |-> 0, sigOk |-> sigOk]

\* A kind-5 deletion (NIP-09): 'e' tags name the deleted events, 'k' the kind.
Deletion(id, pubkey, refs, k) ==
  [id |-> id, kind |-> 5, pubkey |-> pubkey, p |-> "", l |-> "",
   L |-> "", created_at |-> 2, content |-> "revoked",
   e |-> refs, k |-> k, msats |-> 0, sigOk |-> TRUE]

\* A kind-9735 zap receipt: first 'e' tag and the amount of the embedded
\* zap request, in millisatoshis.
ZapReceipt(id, pubkey, ref, msats) ==
  [id |-> id, kind |-> 9735, pubkey |-> pubkey, p |-> "", l |-> "",
   L |-> "", created_at |-> 2, content |-> "",
   e |-> {ref}, k |-> "", msats |-> msats, sigOk |-> TRUE]

\* The events peers may send to the relays.
Universe ==
  { Attestation(1, "A", "K", "service-quality", 2, "c", TRUE),
    Attestation(2, "B", "K", "dispute", 1, "c", TRUE),
    Attestation(3, "K", "K", "service-quality", 2, "c", TRUE),
    Attestation(4, "K", "K", "dispute", 2, "c", TRUE),
    Deletion(5, "A", {1}, "1985"),
    Deletion(6, "B", {1}, "1985"),
    Attestation(7, "A", "K", "general-trust", 0, "c", FALSE),
    Attestation(8, "K", "B", "service-quality", 2, "c", TRUE),
    ZapReceipt(9, "B", 1, 3999) }

\* Option values of queryAttestations: opts.type ("" when absent).
TypeOptions == {"", "service-quality", "bogus"}

RECURSIVE SortById(_)
\* The merged answer of the relays as an array.
SortById(S) ==
  IF S = {} THEN <<>>
  ELSE LET x == CHOOSE y \in S : \A z \in S : y.id <= z.id
       IN <<x>> \o SortById(S \ {x})

\* A NIP-01 filter: kinds, and per tag or field the set of accepted values
\* (the empty set when the filter does not name the tag).
Filter(kinds, L, p, l, e, k, authors) ==
  [kinds |-> kinds, L |-> L, p |-> p, l |-> l, e |-> e, k |-> k,
   authors |-> authors]

\* Does the relay send ev in answer to the filter?
Matches(ev, filter) ==
  /\ ev.kind \in filter.kinds
  /\ filter.L = {} \/ ev.L \in filter.L
  /\ filter.p = {} \/ ev.p \in filter.p
  /\ filter.l = {} \/ ev.l \in filter.l
  /\ filter.e = {} \/ ev.e \cap filter.e # {}
  /\ filter.k = {} \/ ev.k \in filter.k
  /\ filter.authors = {} \/ ev.pubkey \in filter.authors

\* queryRelays: every relay answers with the stored events that match the
\* filter; the answers are merged by event id.
queryRelays(filter, relays) == SortById({ev \in relays : Matches(ev, filter)})

Range(seq) == {seq[i] : i \in 1..Len(seq)}

\* queryRevocations returning nothing: no deletion is ever joined.
queryRevocationsNone(authors, relays) == {}

\* queryRevocations(authors, relays): ids named by 'e' tags of the kind-5
\* '#k'='1985' events of the given authors.
queryRevocations(authors, relays) ==
  IF authors = {} THEN {}
  ELSE LET deletionEvents ==
             queryRelays(Filter({5}, {}, {}, {}, {}, {"1985"}, authors), relays)
       IN UNION {del.e : del \in Range(deletionEvents)}

\* queryAttestations without the self-attestation filter.
queryAttestationsKeepSelf(pubkey, type, includeRevoked, relays) ==
  LET filter == Filter({1985}, {NAMESPACE}, {pubkey},
                       IF type # "" /\ type \in VALID_TYPES THEN {type} ELSE {},
                       {}, {}, {})
      fetched == queryRelays(filter, relays)
      events == fetched
      authors == {ev.pubkey : ev \in Range(events)}
      revokedIds == queryRevocations(authors, relays)
  IN IF includeRevoked THEN events
     ELSE SelectSeq(events, LAMBDA ev : ev.id \notin revokedIds)

\* queryAttestations(pubkey, {type, includeRevoked}).
queryAttestations(pubkey, type, includeRevoked, relays) ==
  LET filter == Filter({1985}, {NAMESPACE}, {pubkey},
                       IF type # "" /\ type \in VALID_TYPES THEN {type} ELSE {},
                       {}, {}, {})
      fetched == queryRelays(filter, relays)
      events == SelectSeq(fetched, LAMBDA ev : ev.pubkey # pubkey)
      authors == {ev.pubkey : ev \in Range(events)}
      revokedIds == queryRevocations(authors, relays)
  IN IF includeRevoked THEN events
     ELSE SelectSeq(events, LAMBDA ev : ev.id \notin revokedIds)

RECURSIVE SumSats(_)
SumSats(S) ==
  IF S = {} THEN 0
  ELSE LET r == CHOOSE x \in S : TRUE
       IN (r.msats \div 1000) + SumSats(S \ {r})

\* queryZapsForEvents(eventIds): satoshis per event id, summed over the
\* receipts whose first 'e' tag names it; ids without a receipt read as 0.
queryZapsForEvents(eventIds, relays) ==
  LET zapReceipts ==
        IF eventIds = {} THEN {}
        ELSE Range(queryRelays(Filter({9735}, {}, {}, {}, eventIds, {}, {}),
                               relays))
  IN [id \in eventIds |->
        SumSats({r \in zapReceipts : id \in r.e})]

\* ------------------------------------------------------------------------
\* Scoring kernel (lib/scoring.js, v0.8): exact arithmetic on integers.
\* A contribution is an integer number of 1/Unit; zap weight is kept in
\* halves, attester trust in hundredths, type and novelty multipliers in
\* tenths and temporal decay in sixteenths.  Time is counted in half-lives.
\* ------------------------------------------------------------------------

POSITIVE_TYPES == VALID_TYPES \ NEGATIVE_TYPES

\* TYPE_MULTIPLIERS, in tenths.
TYPE_MULTIPLIERS ==
  [t \in VALID_TYPES |->
     CASE t = "service-quality"     -> 15
       [] t = "work-completed"      -> 12
       [] t = "identity-continuity" -> 10
       [] t = "general-trust"       -> 8
       [] t = "warning"             -> 0 - 8
       [] t = "dispute"             -> 0 - 15]

NEGATIVE_ATTESTATION_TRUST_GATE == 20

\* novelty_multiplier 1.3, in tenths.
NOVELTY_MULTIPLIER == 13

\* maxDepth passed by calculateTrustScore.
maxDepth == 2

\* One whole contribution: 2 (halves) x 100 x 10 x 16 x 10.
Unit == 320000

\* Math.round(a / b) for a >= 0, b > 0.
RoundDiv(a, b) == (2 * a + b) \div (2 * b)

\* Largest k with 2^k <= n, for n >= 1.
Log2(n) == CHOOSE k \in 0..20 : 2 ^ k <= n /\ n < 2 ^ (k + 1)

\* Largest r with r * r <= n.
Sqrt(n) == CHOOSE r \in 0..2000 : r * r <= n /\ n < (r + 1) * (r + 1)

\* zap_weight = 1.0 + log2(1 + sats) x 0.5, floored at 1.0; in halves.
zapWeight(sats) == IF sats <= 0 THEN 2 ELSE 2 + Log2(1 + sats)

\* decay = 0.5^(max(0, now - created_at) / half_life); in sixteenths.
temporalDecay(created_at, t) ==
  LET age == IF t > created_at THEN t - created_at ELSE 0
  IN IF age > 4 THEN 0 ELSE 2 ^ (4 - age)

\* attester_trust = sqrt(raw) when raw > 0, else 1.0; raw and the result are
\* in hundredths.
attesterTrust(raw) == IF raw > 0 THEN Sqrt(raw * 100) ELSE 100

SameGroup(a, b) == a.pubkey = b.pubkey /\ a.p = b.p /\ a.l = b.l

\* The choice within a group that breaks a tie of created_at by the least id.
NewestLeastId(a, atts) ==
  \A i \in 1..Len(atts) :
    SameGroup(a, atts[i]) =>
      \/ atts[i].created_at < a.created_at
      \/ atts[i].created_at = a.created_at /\ atts[i].id >= a.id

\* Is a the record its (author, target, type) group keeps?
Newest(a, atts) ==
  \A i \in 1..Len(atts) :
    SameGroup(a, atts[i]) =>
      \/ atts[i].created_at < a.created_at
      \/ atts[i].created_at = a.created_at /\ atts[i].id <= a.id

\* deduplicateAttestations: per (author, target, type) the record with the
\* greatest created_at, ties by the greatest id.
deduplicateAttestations(atts) == SelectSeq(atts, LAMBDA a : Newest(a, atts))

\* The novelty test made on the list that deduplication leaves.
isNovelAfterDedup(a, original) ==
  LET kept == deduplicateAttestations(original)
  IN \A i \in 1..Len(kept) :
       (kept[i].pubkey = a.pubkey /\ kept[i].p = a.p) =>
         a.created_at <= kept[i].created_at

\* A record is novel when its created_at is the least of its
\* (author, target) edge in the original list.
isNovel(a, original) ==
  \A i \in 1..Len(original) :
    (original[i].pubkey = a.pubkey /\ original[i].p = a.p) =>
      a.created_at <= original[i].created_at

\* A blank test that takes only the empty string for blank.
IsBlankEmptyOnly(content) == content = ""

IsBlank(content) == StrLen(Trim(content)) = 0

placeholder ==
  [raw |-> 0, display |-> 0, attestationCount |-> 0, positiveCount |-> 0,
   negativeCount |-> 0, gatedCount |-> 0, breakdown |-> <<>>,
   diversity |-> [diversity |-> 0, uniqueAttesters |-> 0,
                  maxAttesterShare |-> 0, topAttester |-> Null]]

\* A breakdown entry that loses the gated mark.
EntryNeverGated(a, gated, reason, contribution, novel) ==
  [id |-> a.id, attester |-> a.pubkey, type |-> a.l, gated |-> FALSE,
   reason |-> reason, contribution |-> contribution, noveltyBonus |-> novel]

\* A breakdown entry; noveltyBonus tells whether the multiplier was applied.
Entry(a, gated, reason, contribution, novel) ==
  [id |-> a.id, attester |-> a.pubkey, type |-> a.l, gated |-> gated,
   reason |-> reason, contribution |-> contribution, noveltyBonus |-> novel]

RECURSIVE SumSeq(_)
SumSeq(seq) == IF seq = <<>> THEN 0 ELSE Head(seq) + SumSeq(Tail(seq))

Contributions(breakdown) == [i \in 1..Len(breakdown) |-> breakdown[i].contribution]

\* calculateDiversity that counts every entry, not only the positive ones.
calculateDiversityUnfiltered(breakdown) ==
  LET attesters == {b.attester : b \in Range(breakdown)}
  IN [diversity |-> 0, uniqueAttesters |-> Cardinality(attesters),
      maxAttesterShare |-> 0, topAttester |-> Null]

\* calculateDiversity(breakdown); diversity and maxAttesterShare in hundredths.
calculateDiversity(breakdown) ==
  LET positive == SelectSeq(breakdown,
                            LAMBDA b : ~b.gated /\ b.contribution > 0)
      attesters == {b.attester : b \in Range(positive)}
      total == SumSeq(Contributions(positive))
      Share(k) == SumSeq(Contributions(
                    SelectSeq(positive, LAMBDA b : b.attester = k)))
      top == CHOOSE i \in 1..Len(positive) :
               /\ \A k \in attesters : Share(k) <= Share(positive[i].attester)
               /\ \A j \in 1..(i - 1) :
                    Share(positive[j].attester) < Share(positive[i].attester)
      maxShare == Share(positive[top].attester)
  IN IF positive = <<>> THEN placeholder.diversity
     ELSE [diversity |-> RoundDiv(100 * Cardinality(attesters) * (total - maxShare),
                                  Len(positive) * total),
           uniqueAttesters |-> Cardinality(attesters),
           maxAttesterShare |-> RoundDiv(100 * maxShare, total),
           topAttester |-> positive[top].attester]

\* Aggregation without the floor at 0.
AggregateNoFloor(breakdown, n) ==
  LET sum == SumSeq(Contributions(breakdown))
      d10 == IF sum > 0 THEN RoundDiv(sum * 10, Unit)
             ELSE 0 - RoundDiv((0 - sum) * 10, Unit)
  IN [raw |-> IF sum > 0 THEN RoundDiv(sum * 100, Unit)
              ELSE 0 - RoundDiv((0 - sum) * 100, Unit),
      display |-> IF d10 > 100 THEN 100 ELSE d10,
      attestationCount |-> n,
      positiveCount |-> Len(SelectSeq(breakdown,
                          LAMBDA b : ~b.gated /\ b.contribution > 0)),
      negativeCount |-> Len(SelectSeq(breakdown,
                          LAMBDA b : ~b.gated /\ b.contribution < 0)),
      gatedCount |-> Len(SelectSeq(breakdown, LAMBDA b : b.gated)),
      breakdown |-> breakdown,
      diversity |-> calculateDiversity(breakdown)]

\* Aggregation of a finished breakdown over n accepted records.
Aggregate(breakdown, n) ==
  LET sum == SumSeq(Contributions(breakdown))
      floored == IF sum > 0 THEN sum ELSE 0
      d10 == RoundDiv(floored * 10, Unit)
  IN [raw |-> RoundDiv(floored * 100, Unit),
      display |-> IF d10 > 100 THEN 100 ELSE d10,
      attestationCount |-> n,
      positiveCount |-> Len(SelectSeq(breakdown,
                          LAMBDA b : ~b.gated /\ b.contribution > 0)),
      negativeCount |-> Len(SelectSeq(breakdown,
                          LAMBDA b : ~b.gated /\ b.contribution < 0)),
      gatedCount |-> Len(SelectSeq(breakdown, LAMBDA b : b.gated)),
      breakdown |-> breakdown,
      diversity |-> calculateDiversity(breakdown)]

\* The memo of one top-level calculateTrustScore call: a Map pubkey -> result.
\* log notes, in order, the calls of calculateTrustScore: the key, the depth,
\* and whether the memo answered (hit, with the result it gave) or the key's
\* attestations were fetched.
EmptyCache == [has |-> {}, val |-> [k \in Keys |-> placeholder], log |-> <<>>]

\* cache.set that stores the result without making the key known.
CacheSetForgets(cache, pubkey, result) ==
  [cache EXCEPT !.val[pubkey] = result]

CacheSet(cache, pubkey, result) ==
  [has |-> cache.has \cup {pubkey},
   val |-> [cache.val EXCEPT ![pubkey] = result],
   log |-> cache.log]

\* A resolver result: raw (in hundredths) and display.
Resolved(raw, display) == [placeholder EXCEPT !.raw = raw, !.display = display]

\* The options of a computeScore call made by calculateTrustScore: the
\* resolver re-enters calculateTrustScore over the relays.
Orchestrated(relays, t) ==
  [relays |-> relays, now |-> t, injected |-> FALSE,
   resolver |-> [k \in Keys |-> placeholder]]

\* The options of a computeScore call with a resolver of its own.
Injected(resolver, t) ==
  [relays |-> {}, now |-> t, injected |-> TRUE, resolver |-> resolver]

\* One call of calculateTrustScore as the log notes it.
Called(pubkey, depth, hit, result) ==
  [pubkey |-> pubkey, depth |-> depth, hit |-> hit, result |-> result]

RECURSIVE calculateTrustScore(_, _, _, _, _)
RECURSIVE ScoreLoop(_, _, _, _, _, _, _)

\* The per-record loop of computeScore over the deduplicated records, from
\* record i on; st carries the breakdown so far and the memo.
ScoreLoop(records, i, original, zapTotals, depth, st, env) ==
  IF i > Len(records) THEN st
  ELSE
    LET a == records[i]
        Skip(entry) ==
          ScoreLoop(records, i + 1, original, zapTotals, depth,
                    [st EXCEPT !.breakdown = Append(@, entry)], env)
    IN IF a.L # NAMESPACE \/ a.l \notin VALID_TYPES
         THEN ScoreLoop(records, i + 1, original, zapTotals, depth, st, env)
       ELSE IF a.l \in NEGATIVE_TYPES /\ IsBlank(a.content)
         THEN Skip(Entry(a, TRUE, "empty content", 0, FALSE))
       ELSE
         LET resolved ==
               IF depth < maxDepth
                 THEN IF env.injected
                        THEN [result |-> env.resolver[a.pubkey],
                              cache |-> st.cache]
                        ELSE calculateTrustScore(a.pubkey, depth + 1, st.cache,
                                                 env.relays, env.now)
                 ELSE [result |-> [placeholder EXCEPT !.display = 100],
                       cache |-> st.cache]
             trust == IF depth < maxDepth
                        THEN attesterTrust(resolved.result.raw) ELSE 100
             novelty == IF isNovel(a, original) THEN NOVELTY_MULTIPLIER ELSE 10
             contribution ==
               zapWeight(zapTotals[a.id]) * trust * TYPE_MULTIPLIERS[a.l]
                 * temporalDecay(a.created_at, env.now) * novelty
             entry ==
               IF a.l \in NEGATIVE_TYPES
                  /\ resolved.result.display < NEGATIVE_ATTESTATION_TRUST_GATE
                 THEN Entry(a, TRUE, "attester trust", 0, FALSE)
                 ELSE Entry(a, FALSE, "", contribution,
                            isNovel(a, original))
         IN ScoreLoop(records, i + 1, original, zapTotals, depth,
                      [breakdown |-> Append(st.breakdown, entry),
                       cache |-> resolved.cache], env)

\* computeScore(attestations, zapTotals, {depth, maxDepth, cache, ...}).
computeScore(attestations, zapTotals, depth, cache, env) ==
  LET records == deduplicateAttestations(attestations)
      st == ScoreLoop(records, 1, attestations, zapTotals, depth,
                      [breakdown |-> <<>>, cache |-> cache], env)
  IN [result |-> Aggregate(st.breakdown, Len(records)), cache |-> st.cache]

\* calculateTrustScore(pubkey, {depth, _cache}): the result and the memo it
\* leaves behind.
calculateTrustScore(pubkey, depth, cache, relays, t) ==
  IF pubkey \in cache.has
    THEN [result |-> cache.val[pubkey],
          cache |-> [cache EXCEPT
                       !.log = Append(@, Called(pubkey, depth, TRUE,
                                                cache.val[pubkey]))]]
  ELSE
    LET set == CacheSet(cache, pubkey, placeholder)
        marked == [set EXCEPT
                     !.log = Append(@, Called(pubkey, depth, FALSE,
                                              placeholder))]
        attestations == queryAttestations(pubkey, "", FALSE, relays)
        eventIds == {a.id : a \in Range(attestations)}
        zapTotals == queryZapsForEvents(eventIds, relays)
        scored == computeScore(attestations, zapTotals, depth, marked,
                               Orchestrated(relays, t))
    IN IF attestations = <<>>
         THEN [result |-> placeholder, cache |-> marked]
         ELSE [result |-> scored.result,
               cache |-> CacheSet(scored.cache, pubkey, scored.result)]

\* The score a caller gets for pubkey from a fresh call.
TrustScore(pubkey, relays, t) ==
  calculateTrustScore(pubkey, 0, EmptyCache, relays, t).result

\* The record of the last call: what was asked and what came back.
Answer(op, pubkey, type, includeRevoked, events, score) ==
  [op |-> op, pubkey |-> pubkey, type |-> type,
   includeRevoked |-> includeRevoked, events |-> events, score |-> score]

\* No relay query has run.
NoQuery == Answer("none", "", "", FALSE, <<>>, placeholder)

\* No queryRelays call has been made.
IdleFan ==
  [status |-> "idle", relays |-> {}, resp |-> [r \in RELAYS |-> <<>>],
   task |-> [r \in RELAYS |-> "none"], ended |-> [r \in RELAYS |-> ""],
   buf |-> [r \in RELAYS |-> <<>>], events |-> <<>>, completed |-> 0,
   master |-> "unset", how |-> "", seen |-> {}, result |-> <<>>, clock |-> 0]

\* The relay list in the order of the array.
RelayList == <<"r1", "r2">>

\* A task that has not settled has no outcome.
NoOutcome == [relay |-> "", success |-> FALSE, reason |-> ""]

\* No pure function has been called.
NoCall == [op |-> "none"]

\* No publishToRelays call has been made.
IdlePub ==
  [status |-> "idle", relays |-> {}, task |-> [r \in RELAYS |-> "none"],
   sent |-> [r \in RELAYS |-> 0], ended |-> [r \in RELAYS |-> ""],
   outcome |-> [r \in RELAYS |-> NoOutcome], results |-> <<>>, clock |-> 0]

\* ------------------------------------------------------------------------
\* Initial state: new CandidateStore(opts)
\* ------------------------------------------------------------------------

\* new CandidateStore({onPersist, maxAge, maxCandidates}) with the
\* persistence callback one of the given ones.
Constructed(callbacks) ==
  /\ candidates = <<>>
  /\ now = 0
  /\ onPersist \in callbacks
  /\ persisted = <<>>
  /\ inflight = {}
  /\ eventSeq = 0
  /\ ret = Returned("new", "", "ok")
  /\ maxAge = 1
  /\ maxCandidates = 1
  /\ net = {}
  /\ last = NoQuery
  /\ fan = IdleFan
  /\ pub = IdlePub
  /\ calc = NoCall

\* A store without a persistence callback, or with one that works.
Init == Constructed({"unset", "set"})

\* A store whose persistence callback raises on every call.
InitThrows == Constructed({"throws"})

\* ------------------------------------------------------------------------
\* Operations
\* ------------------------------------------------------------------------


\* Time passes between operations.
Tick ==
  /\ now < MaxTime
  /\ now' = now + 1
  /\ ret' = Returned("tick", "", "ok")
  /\ UNCHANGED <<candidates, persisted, inflight, eventSeq, config, queryVars, relayVars, calc>>

\* add(candidate); id is candidate.id when the caller gives one, else the 8
\* random bytes (which may be any id as well).
Add(id, type, target, comment) ==
  /\ IF ~AddValid(type, target, comment)
       THEN /\ ret' = Ret("add", id, "throw", "fields", 0, {}, {})
            /\ UNCHANGED <<candidates, persisted>>
       ELSE LET room == IF Len(candidates) >= maxCandidates
                          THEN EvictOldest(candidates) ELSE candidates
                next == MapSet(room, Stored(id, type, target, comment, now))
                evicted == {candidates[i].id : i \in DOMAIN candidates}
                             \ {room[i].id : i \in DOMAIN room}
                done == Persisting(Ret("add", id, "ok", "", 0, evicted, {}))
            IN  /\ candidates' = next
                /\ persisted' = Persist(next, persisted)
                /\ ret' = IF done.res = "ok"
                            THEN [done EXCEPT !.notified = TRUE] ELSE done
  /\ UNCHANGED <<now, inflight, eventSeq, config, queryVars, relayVars, calc>>

\* list({status}): the expiry sweep, then the filtered, sorted, limited copy.
\* ret.id holds the status asked for.
List(status) ==
  /\ candidates' = ExpireOld(candidates, now)
  /\ ret' = (LET results == ListByStatus(candidates', status)
             IN Ret("list", status, "ok", "", 0,
                    {results[i].id : i \in DOMAIN results}, {}))
  /\ UNCHANGED <<now, persisted, inflight, eventSeq, config, queryVars, relayVars, calc>>

\* stats(): the same sweep, then counting.
Stats ==
  /\ candidates' = ExpireOld(candidates, now)
  /\ ret' = [Returned("stats", "", "ok") EXCEPT
                !.counts = CountStatuses(candidates')]
  /\ UNCHANGED <<now, persisted, inflight, eventSeq, config, queryVars, relayVars, calc>>

\* confirm(id, edits)
Confirm(id, eComment, eType, eRating) ==
  /\ IF ConfirmOk(candidates, id)
       THEN /\ candidates' = confirm(candidates, id, eComment, eType, eRating, now)
            /\ persisted' = Persist(candidates', persisted)
            /\ ret' = Persisting(Returned("confirm", id, "ok"))
       ELSE /\ ret' = Returned("confirm", id, "null")
            /\ UNCHANGED <<candidates, persisted>>
  /\ UNCHANGED <<now, inflight, eventSeq, config, queryVars, relayVars, calc>>

\* reject(id, reason)
Reject(id, reason) ==
  /\ IF Has(candidates, id) /\ candidates[IndexOf(candidates, id)].status = "pending"
       THEN /\ candidates' = MapSet(candidates,
                                Rejected(candidates[IndexOf(candidates, id)], reason, now))
            /\ persisted' = Persist(candidates', persisted)
            /\ ret' = Persisting(Returned("reject", id, "ok"))
       ELSE /\ ret' = Returned("reject", id, "null")
            /\ UNCHANGED <<candidates, persisted>>
  /\ UNCHANGED <<now, inflight, eventSeq, config, queryVars, relayVars, calc>>

\* markPublished(id, eventId), called directly.
MarkPublished(id, eventId) ==
  /\ IF Has(candidates, id)
       THEN /\ candidates' = markPublished(candidates, id, eventId, now)
            /\ persisted' = Persist(candidates', persisted)
            /\ ret' = Persisting(Returned("markPublished", id, "ok"))
       ELSE /\ ret' = Returned("markPublished", id, "null")
            /\ UNCHANGED <<candidates, persisted>>
  /\ UNCHANGED <<now, inflight, eventSeq, config, queryVars, relayVars, calc>>

\* confirmAndPublish(id, secretKey, opts) up to the relay fan-out: confirm,
\* then publishAttestation's checks and signing. A failed confirm returns
\* null, a failed check or signature throws, otherwise the call is suspended
\* with its signed event until the relays have answered.
ConfirmAndPublishStart(id, eComment, eType, eRating, signOk) ==
  /\ IF ~ConfirmOk(candidates, id)
       THEN /\ ret' = Returned("confirmAndPublish", id, "null")
            /\ UNCHANGED <<candidates, persisted, inflight, eventSeq>>
       ELSE LET after == confirm(candidates, id, eComment, eType, eRating, now)
                c     == after[IndexOf(after, id)]
                err   == PublishError(c.type, c.targetPubkey, c.comment, signOk)
            IN  /\ candidates' = after
                /\ persisted' = Persist(after, persisted)
                /\ IF err # ""
                     THEN /\ ret' = Persisting(Ret("confirmAndPublish", id,
                                                     "throw", err, 0, {}, {}))
                          /\ UNCHANGED <<inflight, eventSeq>>
                     ELSE /\ eventSeq < MaxEvents
                          /\ eventSeq' = eventSeq + 1
                          /\ inflight' = inflight \cup {[id |-> id, event |-> eventSeq + 1]}
                          /\ ret' = Persisting(Returned("confirmAndPublish", id,
                                                          "suspended"))
  /\ UNCHANGED <<now, config, queryVars, relayVars, calc>>

\* The rest of confirmAndPublish: publishToRelays has resolved with one
\* outcome per relay; markPublished(id, event.id) follows unconditionally.
ConfirmAndPublishFinish(task, outcome) ==
  /\ task \in inflight
  /\ inflight' = inflight \ {task}
  /\ candidates' = markPublished(candidates, task.id, task.event, now)
  /\ persisted' = IF Has(candidates, task.id)
                    THEN Persist(candidates', persisted) ELSE persisted
  /\ ret' = (LET r == Ret("confirmAndPublish", task.id, "ok", "",
                          Cardinality({x \in RELAYS : outcome[x] = "accepted"}),
                          {}, {})
             IN IF Has(candidates, task.id) THEN Persisting(r) ELSE r)
  /\ UNCHANGED <<now, eventSeq, config, queryVars, relayVars, calc>>

\* publishAllConfirmed(secretKey, opts)
PublishAllConfirmed(signOk) ==
  LET swept  == ExpireOld(candidates, now)
      listed == ListByStatus(swept, "confirmed")
      st     == PublishLoop(listed,
                            [cands |-> swept, persisted |-> persisted,
                             seq |-> eventSeq, tasks |-> {}, errs |-> {}],
                            signOk, now)
  IN      /\ st.seq <= MaxEvents
      /\ candidates' = st.cands
      /\ persisted' = st.persisted
      /\ eventSeq' = st.seq
      /\ inflight' = inflight \cup st.tasks
      /\ ret' = (LET r == Ret("publishAllConfirmed", "", "ok", "", 0,
                              {listed[i].id : i \in DOMAIN listed}, st.errs)
                 IN IF st.cands # swept THEN Persisting(r) ELSE r)
      /\ UNCHANGED <<now, config, queryVars, relayVars, calc>>

Next ==
  \/ Tick
  \/ \E id \in CandIds, c \in AddInputs :
          Add(id, c.type, c.targetPubkey, c.comment)
  \/ \E status \in ListFilters : List(status)
  \/ Stats
  \/ \E id \in CandIds, e \in EditInputs : Confirm(id, e.comment, e.type, e.rating)
  \/ \E id \in CandIds, reason \in {Null, "why"} : Reject(id, reason)
  \/ \E id \in CandIds : MarkPublished(id, ExternalEvent)
  \/ \E id \in CandIds, e \in EditInputs, signOk \in BOOLEAN :
          ConfirmAndPublishStart(id, e.comment, e.type, e.rating, signOk)
  \/ \E task \in inflight, outcome \in [RELAYS -> {"accepted", "rejected", "timeout"}] :
          ConfirmAndPublishFinish(task, outcome)
  \/ \E signOk \in BOOLEAN : PublishAllConfirmed(signOk)

Spec == Init /\ [][Next]_vars

\* The same operations on a store whose persistence callback raises.
SpecThrows == InitThrows /\ [][Next]_vars

\* load(list): no check, no sweep, no eviction, no callback.  The caller
\* loads on start, into the store it has just constructed.
Load(list) ==
  /\ candidates = <<>>
  /\ candidates' = load(candidates, list)
  /\ ret' = Returned("load", "", "ok")
  /\ UNCHANGED <<now, persisted, inflight, eventSeq, config, queryVars, relayVars, calc>>

\* The store with load() among its operations.
NextLoad ==
  \/ \E list \in LoadInputs : Load(list)
  \/ Next

SpecLoad == Constructed({"set"}) /\ [][NextLoad]_vars

\* Ids for a store of two slots: a third candidate finds it full.
EvictIds == {"c1", "c2", "c3"}

\* new CandidateStore({maxCandidates: 2}), no callbacks.
InitEvict ==
  /\ candidates = <<>>
  /\ now = 0
  /\ onPersist = "unset"
  /\ persisted = <<>>
  /\ inflight = {}
  /\ eventSeq = 0
  /\ ret = Returned("new", "", "ok")
  /\ maxAge = 1
  /\ maxCandidates = 2
  /\ net = {}
  /\ last = NoQuery
  /\ fan = IdleFan
  /\ pub = IdlePub
  /\ calc = NoCall

\* add, confirm, reject and list on the store of two slots, as time passes.
NextEvict ==
  \/ Tick
  \/ \E id \in EvictIds : Add(id, "service-quality", "pk64", "c")
  \/ List("")
  \/ \E id \in EvictIds : Confirm(id, "", "", "null")
  \/ \E id \in EvictIds : Reject(id, Null)

SpecEvict == InitEvict /\ [][NextEvict]_vars

\* ------------------------------------------------------------------------
\* Relay aggregation: initial state and actions
\* ------------------------------------------------------------------------

\* Empty relays, an idle store, and the wall clock two half-lives after the
\* oldest event a peer may send.
InitQuery ==
  /\ candidates = <<>>
  /\ now = 2
  /\ onPersist = "unset"
  /\ persisted = <<>>
  /\ inflight = {}
  /\ eventSeq = 0
  /\ ret = Returned("new", "", "ok")
  /\ maxAge = 1
  /\ maxCandidates = 1
  /\ net = {}
  /\ last = NoQuery
  /\ fan = IdleFan
  /\ pub = IdlePub
  /\ calc = NoCall

\* Some peer sends an event and the relays store it.
RelayStores(ev) ==
  /\ ev \notin net
  /\ net' = net \cup {ev}
  /\ last' = NoQuery
  /\ UNCHANGED <<now, storeVars, relayVars, calc>>

\* queryAttestations(pubkey, {type, includeRevoked})
QueryAttestations(pubkey, type, includeRevoked) ==
  /\ last' = Answer("queryAttestations", pubkey, type, includeRevoked,
                    queryAttestations(pubkey, type, includeRevoked, net),
                    placeholder)
  /\ UNCHANGED <<now, net, storeVars, relayVars, calc>>

\* calculateTrustScore(pubkey)
CalculateTrustScore(pubkey) ==
  /\ last' = Answer("calculateTrustScore", pubkey, "", FALSE, <<>>,
                    TrustScore(pubkey, net, now))
  /\ UNCHANGED <<now, net, storeVars, relayVars, calc>>

NextQuery ==
  \/ \E ev \in Universe : RelayStores(ev)
  \/ \E pubkey \in Keys, type \in TypeOptions, includeRevoked \in BOOLEAN :
          QueryAttestations(pubkey, type, includeRevoked)
  \/ \E pubkey \in Keys : CalculateTrustScore(pubkey)

SpecQuery == InitQuery /\ [][NextQuery]_vars

\* ------------------------------------------------------------------------
\* queryRelays / queryRelay: one fan-out of a filter to the relays
\* ------------------------------------------------------------------------

\* What a relay may send as an event: an id and the rest of the event. Two
\* relays may send different bodies under one id.
Body(id, body) == [id |-> id, body |-> body]

\* The EVENT messages a relay has for the subscription, in the order it sends
\* them: nothing, one event, another body under the same id followed by a
\* second event, the same event twice.
Responses ==
  { <<>>,
    <<Body(1, "a")>>,
    <<Body(1, "b"), Body(2, "a")>>,
    <<Body(1, "a"), Body(1, "a")>> }

\* queryRelays' .then callback that sets every event, seen or not.
MergeKeepAll(events, evts) == events \o evts

RECURSIVE Merge(_, _)
\* for (const e of evts) if (!events.has(e.id)) events.set(e.id, e), on the
\* Map events kept as the sequence of its values.
Merge(events, evts) ==
  IF evts = <<>> THEN events
  ELSE Merge(IF \E i \in DOMAIN events : events[i].id = Head(evts).id
               THEN events ELSE Append(events, Head(evts)),
             Tail(evts))

\* queryRelay that hands over its events only when EOSE ended it.
SettledWithEoseOnly(events, ending) ==
  IF ending = "eose" THEN events ELSE <<>>

\* What queryRelay's promise hands to queryRelays when the task ends: the
\* events array on EOSE, on a socket error and on the per-relay timeout;
\* nothing when new WebSocket() raised and the promise was rejected.
Settled(events, ending) == IF ending = "connect" THEN <<>> ELSE events

\* resolve() that lets a later call replace the value of the promise.
ResolveAgain(f, how) ==
  [f EXCEPT !.status = "resolved", !.result = f.events, !.how = how,
            !.seen = {r \in f.relays : f.task[r] = "done"}]

\* resolve(Array.from(events.values())): only the first call settles the
\* promise.  how and seen note why and with which relays finished.
Resolve(f, how) ==
  IF f.status = "resolved" THEN f
  ELSE [f EXCEPT !.status = "resolved", !.result = f.events, !.how = how,
                 !.seen = {r \in f.relays : f.task[r] = "done"}]

\* The per-relay task of r ends: .then merges what the task hands over,
\* .finally counts it, and the last one clears the master timer and resolves.
Finished(f, r, ending) ==
  LET g == [f EXCEPT !.task[r] = "done",
                     !.ended[r] = ending,
                     !.events = Merge(@, Settled(f.buf[r], ending)),
                     !.completed = @ + 1]
  IN IF g.completed >= Cardinality(g.relays)
       THEN Resolve([g EXCEPT !.master = IF @ = "armed" THEN "cleared" ELSE @],
                    "all")
       ELSE g

RECURSIVE FinishedAll(_, _, _)
\* The tasks of the relays in S end, one after the other.
FinishedAll(f, S, ending) ==
  IF S = {} THEN f
  ELSE LET r == CHOOSE x \in S : TRUE
       IN FinishedAll(Finished(f, r, ending), S \ {r}, ending)

\* queryRelays(filter, relays): arms the master timer; with no relay it
\* resolves at once; else every relay gets its task, timer and socket.  For
\* the relays in unreachable, new WebSocket() raises and the task is rejected
\* on the spot.  resp is what each relay will answer.
QueryRelays(relays, unreachable, resp) ==
  /\ fan.status = "idle"
  /\ unreachable \subseteq relays
  /\ \A r \in RELAYS \ relays : resp[r] = <<>>
  /\ LET f == [fan EXCEPT
                 !.status = "pending", !.relays = relays, !.resp = resp,
                 !.master = "armed",
                 !.task = [r \in RELAYS |->
                             IF r \in relays THEN "connecting" ELSE "none"]]
     IN fan' = IF relays = {}
                 THEN Resolve([f EXCEPT !.master = "cleared"], "empty")
                 ELSE FinishedAll(f, unreachable, "connect")
  /\ UNCHANGED <<now, storeVars, queryVars, pub, calc>>

\* Time passes: first the per-relay deadline, then the global one.
Elapse ==
  /\ fan.status # "idle"
  /\ fan.clock < 2
  /\ fan' = [fan EXCEPT !.clock = @ + 1]
  /\ UNCHANGED <<now, storeVars, queryVars, pub, calc>>

\* ws.on('open'): the REQ is sent.
SocketOpens(r) ==
  /\ fan.task[r] = "connecting"
  /\ fan' = [fan EXCEPT !.task[r] = "open"]
  /\ UNCHANGED <<now, storeVars, queryVars, pub, calc>>

\* ws.on('message') with an EVENT of the subscription: events.push(msg[2]).
RelaySendsEvent(r) ==
  /\ fan.task[r] = "open"
  /\ Len(fan.buf[r]) < Len(fan.resp[r])
  /\ fan' = [fan EXCEPT !.buf[r] = Append(@, fan.resp[r][Len(@) + 1])]
  /\ UNCHANGED <<now, storeVars, queryVars, pub, calc>>

\* ws.on('message') with EOSE: clearTimeout, CLOSE, ws.close(), resolve.  An
\* exception of ws.send or ws.close is swallowed by the handler's catch and
\* leaves the task with its timer cleared and its promise pending.
RelaySendsEose(r, raises) ==
  /\ fan.task[r] = "open"
  /\ Len(fan.buf[r]) = Len(fan.resp[r])
  /\ fan' = IF raises THEN [fan EXCEPT !.task[r] = "hung"]
                      ELSE Finished(fan, r, "eose")
  /\ UNCHANGED <<now, storeVars, queryVars, pub, calc>>

\* ws.on('error'): clearTimeout, ws.close(), resolve(events).
SocketError(r) ==
  /\ fan.task[r] \in {"connecting", "open", "hung"}
  /\ fan' = Finished(fan, r, "error")
  /\ UNCHANGED <<now, storeVars, queryVars, pub, calc>>

\* The per-relay timer: ws.close(), resolve(events).
RelayTimeout(r) ==
  /\ fan.clock >= 1
  /\ fan.task[r] \in {"connecting", "open"}
  /\ fan' = Finished(fan, r, "timeout")
  /\ UNCHANGED <<now, storeVars, queryVars, pub, calc>>

\* The master timer, two seconds after the per-relay ones: it runs when they
\* have all run or been cleared, and resolves with what the Map holds.
MasterTimeout ==
  /\ fan.clock = 2
  /\ fan.master = "armed"
  /\ \A r \in fan.relays : fan.task[r] \notin {"connecting", "open"}
  /\ fan' = Resolve([fan EXCEPT !.master = "fired"], "deadline")
  /\ UNCHANGED <<now, storeVars, queryVars, pub, calc>>

NextFanout ==
  \/ \E relays \in SUBSET RELAYS, unreachable \in SUBSET RELAYS,
        resp \in [RELAYS -> Responses] :
          QueryRelays(relays, unreachable, resp)
  \/ Elapse
  \/ \E r \in RELAYS : SocketOpens(r)
  \/ \E r \in RELAYS : RelaySendsEvent(r)
  \/ \E r \in RELAYS, raises \in BOOLEAN : RelaySendsEose(r, raises)
  \/ \E r \in RELAYS : SocketError(r)
  \/ \E r \in RELAYS : RelayTimeout(r)
  \/ MasterTimeout

\* One queryRelays call and the relays it talks to.
SpecFanout == Constructed({"unset"}) /\ [][NextFanout]_vars

\* The same with timers that do fire and time that does pass.
SpecFanoutFair ==
  /\ SpecFanout
  /\ WF_vars(Elapse)
  /\ WF_vars(\E r \in RELAYS : RelayTimeout(r))
  /\ WF_vars(MasterTimeout)

\* ------------------------------------------------------------------------
\* publishToRelays / publishToRelay: one fan-out of an event to the relays
\* ------------------------------------------------------------------------

\* The OK handler that resolves with success whatever msg[2] says.
OkOutcomeAlwaysSuccess(r, accepted, reason) ==
  [relay |-> r, success |-> TRUE, reason |-> ""]

\* msg[2] ? {relay, success: true, eventId} :
\*          {relay, success: false, reason: msg[3] || 'Rejected'}
OkOutcome(r, accepted, reason) ==
  IF accepted THEN [relay |-> r, success |-> TRUE, reason |-> ""]
  ELSE [relay |-> r, success |-> FALSE,
        reason |-> IF reason = "" THEN "Rejected" ELSE reason]

\* {relay, success: false, reason}
Failure(r, reason) == [relay |-> r, success |-> FALSE, reason |-> reason]

\* The task of r settles with the outcome; Promise.all resolves with the
\* outcomes in the order of the relay list once every task has settled.
PubSettled(p, r, ending, outcome) ==
  LET q == [p EXCEPT !.task[r] = "done", !.ended[r] = ending,
                     !.outcome[r] = outcome]
      listed == SelectSeq(RelayList, LAMBDA x : x \in q.relays)
  IN IF \A x \in q.relays : q.task[x] = "done"
       THEN [q EXCEPT !.status = "returned",
                      !.results = [i \in DOMAIN listed |-> q.outcome[listed[i]]]]
       ELSE q

RECURSIVE PubSettledAll(_, _)
\* new WebSocket() raises for each relay of S.
PubSettledAll(p, S) ==
  IF S = {} THEN p
  ELSE LET r == CHOOSE x \in S : TRUE
       IN PubSettledAll(PubSettled(p, r, "connect", Failure(r, "err.message")),
                        S \ {r})

\* publishToRelays(event, relays): one publishToRelay per relay, each with
\* its timer and socket; for the relays in unreachable new WebSocket() raises.
PublishToRelays(relays, unreachable) ==
  /\ pub.status = "idle"
  /\ unreachable \subseteq relays
  /\ LET p == [pub EXCEPT
                 !.status = "pending", !.relays = relays,
                 !.task = [r \in RELAYS |->
                             IF r \in relays THEN "connecting" ELSE "none"]]
     IN pub' = IF relays = {} THEN [p EXCEPT !.status = "returned"]
                ELSE PubSettledAll(p, unreachable)
  /\ UNCHANGED <<now, storeVars, queryVars, fan, calc>>

\* The per-relay deadline passes.
PubElapse ==
  /\ pub.status # "idle"
  /\ pub.clock < 1
  /\ pub' = [pub EXCEPT !.clock = @ + 1]
  /\ UNCHANGED <<now, storeVars, queryVars, fan, calc>>

\* ws.on('open'): the EVENT message is sent.
PubSocketOpens(r) ==
  /\ pub.task[r] = "connecting"
  /\ pub' = [pub EXCEPT !.task[r] = "open", !.sent[r] = @ + 1]
  /\ UNCHANGED <<now, storeVars, queryVars, fan, calc>>

\* ws.on('message') with an OK: clearTimeout, ws.close(), resolve.  An
\* exception of ws.close is swallowed by the handler's catch and leaves the
\* task with its timer cleared and its promise pending.
RelayRepliesOk(r, accepted, reason, raises) ==
  /\ pub.task[r] = "open"
  /\ pub' = IF raises THEN [pub EXCEPT !.task[r] = "hung"]
            ELSE PubSettled(pub, r, IF accepted THEN "accepted" ELSE "rejected",
                            OkOutcome(r, accepted, reason))
  /\ UNCHANGED <<now, storeVars, queryVars, fan, calc>>

\* ws.on('error'): clearTimeout, ws.close(), resolve with err.message.
PubSocketError(r) ==
  /\ pub.task[r] \in {"connecting", "open", "hung"}
  /\ pub' = PubSettled(pub, r, "error", Failure(r, "err.message"))
  /\ UNCHANGED <<now, storeVars, queryVars, fan, calc>>

\* The per-relay timer: ws.close(), resolve with reason 'Timeout'.
PubRelayTimeout(r) ==
  /\ pub.clock >= 1
  /\ pub.task[r] \in {"connecting", "open"}
  /\ pub' = PubSettled(pub, r, "timeout", Failure(r, "Timeout"))
  /\ UNCHANGED <<now, storeVars, queryVars, fan, calc>>

NextPublish ==
  \/ \E relays \in SUBSET RELAYS, unreachable \in SUBSET RELAYS :
          PublishToRelays(relays, unreachable)
  \/ PubElapse
  \/ \E r \in RELAYS : PubSocketOpens(r)
  \/ \E r \in RELAYS, accepted \in BOOLEAN, reason \in {"", "blocked"},
        raises \in BOOLEAN : RelayRepliesOk(r, accepted, reason, raises)
  \/ \E r \in RELAYS : PubSocketError(r)
  \/ \E r \in RELAYS : PubRelayTimeout(r)

\* One publishToRelays call and the relays it talks to.
SpecPublish == Constructed({"unset"}) /\ [][NextPublish]_vars

\* ------------------------------------------------------------------------
\* publishToRelay: the frames a relay sends back
\* ------------------------------------------------------------------------

\* The id of the event publishToRelays sends, and the id of another event.
SentEventId == "e1"

EventIds == {SentEventId, "e2"}

\* What a relay may send on the socket: ["OK", id, accepted, reason] or a
\* frame of another kind.
Frames ==
  [kind : {"OK"}, id : EventIds, accepted : BOOLEAN, reason : {"", "blocked"}]
    \cup [kind : {"NOTICE"}, id : {SentEventId}, accepted : {FALSE},
          reason : {""}]

\* The frame ws.on('message') was last called with, and on which socket.
Received(r, frame) == [op |-> "message", relay |-> r, frame |-> frame]

\* ws.on('message'): msg[0] === 'OK' clears the timer, closes the socket and
\* resolves from msg[2] and msg[3]; msg[1] is only copied into the result.
\* Any other frame is dropped.
RelaySendsFrame(r, frame) ==
  /\ pub.task[r] = "open"
  /\ calc' = Received(r, frame)
  /\ pub' = IF frame.kind = "OK"
              THEN PubSettled(pub, r,
                              IF frame.accepted THEN "accepted" ELSE "rejected",
                              OkOutcome(r, frame.accepted, frame.reason))
              ELSE pub
  /\ UNCHANGED <<now, storeVars, queryVars, fan>>

NextPublishFrames ==
  \/ \E relays \in SUBSET RELAYS, unreachable \in SUBSET RELAYS :
          PublishToRelays(relays, unreachable)
  \/ PubElapse
  \/ \E r \in RELAYS : PubSocketOpens(r)
  \/ \E r \in RELAYS, frame \in Frames : RelaySendsFrame(r, frame)
  \/ \E r \in RELAYS : PubSocketError(r)
  \/ \E r \in RELAYS : PubRelayTimeout(r)

\* One publishToRelays call and the frames the relays answer with.
SpecPublishFrames == Constructed({"unset"}) /\ [][NextPublishFrames]_vars

\* publishRevocation's checks, in order; "" when the event is built.
RevocationError(attestationEventId, reason) ==
  IF attestationEventId = "" \/ StrLen(attestationEventId) # 64 THEN "id"
  ELSE IF reason = "" \/ StrLen(Trim(reason)) = 0 THEN "reason"
  ELSE ""

\* The record of a publishAttestation or publishRevocation call: its
\* arguments (for a revocation the event id and the reason), and whether it
\* raised or went on to the relays.
Published(op, type, target, comment, err) ==
  [op |-> op, type |-> type, target |-> target, comment |-> comment,
   res |-> IF err = "" THEN "ok" ELSE "throw", err |-> err]

\* A call that passed its checks: the event is signed and handed to
\* publishToRelays.  One that did not has raised and touched no relay.
Handed(err, relays, unreachable) ==
  IF err # "" THEN pub' = pub
  ELSE /\ pub.status = "idle"
       /\ unreachable \subseteq relays
       /\ LET p == [pub EXCEPT
                      !.status = "pending", !.relays = relays,
                      !.task = [r \in RELAYS |->
                                  IF r \in relays THEN "connecting" ELSE "none"]]
          IN pub' = IF relays = {} THEN [p EXCEPT !.status = "returned"]
                     ELSE PubSettledAll(p, unreachable)

\* publishAttestation(secretKey, targetPubkey, type, comment, {relays})
PublishAttestation(type, target, comment, relays, unreachable) ==
  /\ LET err == PublishError(type, target, comment, TRUE)
     IN /\ calc' = Published("publishAttestation", type, target, comment, err)
        /\ Handed(err, relays, unreachable)
  /\ UNCHANGED <<now, storeVars, queryVars, fan>>

\* publishRevocation(secretKey, attestationEventId, reason, {relays})
PublishRevocation(attestationEventId, reason, relays, unreachable) ==
  /\ LET err == RevocationError(attestationEventId, reason)
     IN /\ calc' = Published("publishRevocation", "", attestationEventId,
                             reason, err)
        /\ Handed(err, relays, unreachable)
  /\ UNCHANGED <<now, storeVars, queryVars, fan>>

\* What callers pass as the event id and the reason of a revocation.
RevocationIds == {"", "pk10", "pk64"}

RevocationReasons == {"", " ", "why"}

\* What callers pass to publishAttestation: the candidates of AddInputs, and
\* negative types with no comment and with one.
PublishInputs ==
  AddInputs \cup
  { [type |-> "dispute", targetPubkey |-> "pk64", comment |-> ""],
    [type |-> "warning", targetPubkey |-> "pk64", comment |-> " "],
    [type |-> "warning", targetPubkey |-> "pk64", comment |-> "c"] }

NextPublishCall ==
  \/ \E c \in PublishInputs, relays \in SUBSET RELAYS, unreachable \in SUBSET RELAYS :
       PublishAttestation(c.type, c.targetPubkey, c.comment, relays, unreachable)
  \/ \E id \in RevocationIds, reason \in RevocationReasons,
        relays \in SUBSET RELAYS, unreachable \in SUBSET RELAYS :
       PublishRevocation(id, reason, relays, unreachable)
  \/ PubElapse
  \/ \E r \in RELAYS : PubSocketOpens(r)
  \/ \E r \in RELAYS, accepted \in BOOLEAN, reason \in {"", "blocked"},
        raises \in BOOLEAN : RelayRepliesOk(r, accepted, reason, raises)
  \/ \E r \in RELAYS : PubSocketError(r)
  \/ \E r \in RELAYS : PubRelayTimeout(r)

\* Calls of publishAttestation and publishRevocation, and the relays.
SpecPublishCall == Constructed({"unset"}) /\ [][NextPublishCall]_vars

\* ------------------------------------------------------------------------
\* Receipts (lib/receipts.js): parsing a DVM result event
\* ------------------------------------------------------------------------

DVM_RESULT_KIND_MIN == 6000

DVM_RESULT_KIND_MAX == 6999

\* A string as the sequence of its characters.
Digits == <<"0", "1", "2", "3", "4", "5", "6", "7", "8", "9">>

IsDigit(ch) == \E i \in DOMAIN Digits : Digits[i] = ch

DigitValue(ch) == (CHOOSE i \in DOMAIN Digits : Digits[i] = ch) - 1

\* A number of JavaScript: NaN, or an integer.
NaN == [nan |-> TRUE, val |-> 0]

Num(n) == [nan |-> FALSE, val |-> n]

RECURSIVE ParseDigits(_, _)
\* The value of the longest prefix of decimal digits of str, after acc.
ParseDigits(str, acc) ==
  IF str = <<>> \/ ~IsDigit(Head(str)) THEN acc
  ELSE ParseDigits(Tail(str), 10 * acc + DigitValue(Head(str)))

RECURSIVE TrimStart(_)
TrimStart(str) ==
  IF str # <<>> /\ Head(str) = " " THEN TrimStart(Tail(str)) ELSE str

\* parseInt(str, 10): leading white space is skipped, a sign is read, then the
\* longest run of digits; NaN when there is no digit.
parseInt(str) ==
  LET t == TrimStart(str)
      signed == t # <<>> /\ Head(t) \in {"-", "+"}
      body == IF signed THEN Tail(t) ELSE t
      magnitude == ParseDigits(body, 0)
  IN IF body = <<>> \/ ~IsDigit(Head(body)) THEN NaN
     ELSE IF signed /\ Head(t) = "-" THEN Num(0 - magnitude)
     ELSE Num(magnitude)

\* Math.floor(x / 1000)
FloorThousandth(x) == IF x.nan THEN NaN ELSE Num(x.val \div 1000)

\* A tag [name, value].
Tag(name, value) == [name |-> name, value |-> value]

\* findTagValue(tags, name): the value of the first tag of that name, or
\* null; a value that may be null is a set of at most one element.
findTagValue(tags, name) ==
  LET found == SelectSeq(tags, LAMBDA t : t.name = name)
  IN IF found = <<>> THEN {} ELSE {Head(found).value}

\* A string that is not null and not empty.
Truthy(v) == v # {} /\ v # {<<>>}

\* parseDVMResult(event): null, or the parsed record.
parseDVMResult(event) ==
  IF event.kind = 0 THEN {}
  ELSE IF event.kind < DVM_RESULT_KIND_MIN \/ event.kind > DVM_RESULT_KIND_MAX
    THEN {}
  ELSE
    LET amountTag == findTagValue(event.tags, "amount")
    IN {[resultEventId |-> event.id,
         resultKind |-> event.kind,
         requestKind |-> event.kind - 1000,
         requestEventId |-> findTagValue(event.tags, "e"),
         dvmPubkey |-> event.pubkey,
         requesterPubkey |-> findTagValue(event.tags, "p"),
         amountMillisats |-> IF Truthy(amountTag)
                               THEN {parseInt(v) : v \in amountTag} ELSE {},
         amountSats |-> IF Truthy(amountTag)
                          THEN {FloorThousandth(parseInt(v)) : v \in amountTag}
                          ELSE {}]}

\* The kinds of the events handed to the parser: none, a note, the last
\* request kind, the first and the last result kind, one between, feedback.
EventKinds == {0, 1, 5999, 6000, 6050, 6999, 7000}

\* The values an amount tag may carry.
AmountValues ==
  { <<"2", "1", "0", "0", "0">>, <<"9", "9", "9">>, <<"0">>,
    <<"1", "5", "0", "0", "x">>, <<" ", "2", "0", "0", "0">>,
    <<"-", "1", "0", "0", "0">>, <<"a", "b", "c">>, <<>> }

\* Tag lists: any choice of e tags, p tags and at most one amount tag.
TagLists ==
  { e \o q \o a :
      e \in {<<>>, <<Tag("e", <<"R">>)>>,
             <<Tag("e", <<"R">>), Tag("e", <<"S">>)>>},
      q \in {<<>>, <<Tag("p", <<"U">>)>>,
             <<Tag("p", <<"U">>), Tag("p", <<"V">>)>>},
      a \in {<<>>} \cup {<<Tag("amount", v)>> : v \in AmountValues} }

\* parseDVMResult(event)
ParseDVMResult(kind, tags) ==
  /\ LET event == [id |-> "X", kind |-> kind, pubkey |-> "P", tags |-> tags]
     IN calc' = [op |-> "parseDVMResult", event |-> event,
                 out |-> parseDVMResult(event)]
  /\ UNCHANGED <<now, storeVars, queryVars, relayVars>>

NextReceipt == \E kind \in EventKinds, tags \in TagLists : ParseDVMResult(kind, tags)

\* The parser applied to one event after another.
SpecReceipt == Constructed({"unset"}) /\ [][NextReceipt]_vars

\* ------------------------------------------------------------------------
\* watchDVMResults (lib/receipts.js): the live watcher
\* ------------------------------------------------------------------------

DVM_FEEDBACK_KIND == 7000

\* Each relay is connected to at most MaxConnects times.
MaxConnects == 2

WatchRelays == {"r1", "r2"}

\* The events the relays may send: a DVM result, a feedback event, and a
\* note under the id of the feedback event (nothing verifies an id).
WatchEvents ==
  { [id |-> "e1", kind |-> 6050, pubkey |-> "P", tags |-> <<>>],
    [id |-> "e2", kind |-> DVM_FEEDBACK_KIND, pubkey |-> "P", tags |-> <<>>],
    [id |-> "e2", kind |-> 1, pubkey |-> "P", tags |-> <<>>] }

WatchIds == {ev.id : ev \in WatchEvents}

\* The messages of a relay: an EVENT of the watcher's subscription, an EVENT
\* of another one, an EOSE.
WatchMessages ==
  {[type |-> "EVENT", own |-> TRUE, event |-> ev] : ev \in WatchEvents}
    \cup {[type |-> "EVENT", own |-> FALSE, event |-> ev] : ev \in WatchEvents}
    \cup {[type |-> "EOSE", own |-> TRUE, event |-> ev] :
            ev \in {e \in WatchEvents : e.id = "e1"}}

\* What the handler keeps of the parsed event: nothing when the parser gave
\* null, else whether it names a provider and a result event.
WatchParsed(event) ==
  IF event.kind = DVM_FEEDBACK_KIND
    THEN {[attestable |-> FALSE]}
    ELSE {[attestable |-> r.dvmPubkey # "" /\ r.resultEventId # ""] :
            r \in parseDVMResult(event)}

\* seen.add that marks nothing.
SeenAddNothing(seen, id) == seen

\* seen.add(event.id)
SeenAdd(seen, id) == seen \cup {id}

\* A message handler suspended at an await: in the callback, or in
\* publishReceipt; call is the number of the callback call for that id.
Handler(relay, id, call, at, attestable) ==
  [relay |-> relay, id |-> id, call |-> call, at |-> at,
   attestable |-> attestable]

\* watchDVMResults(myPubkey, callback, {relays, secretKey}) has returned:
\* connectRelay ran for every relay, the constructor succeeding or throwing.
Watching(secretKey, conn) ==
  [op |-> "watchDVMResults", stopped |-> FALSE, secretKey |-> secretKey,
   conn |-> conn, connects |-> [r \in WatchRelays |-> 1],
   seen |-> {}, handlers |-> {}, calls |-> [id \in WatchIds |-> 0],
   delivered |-> [id \in WatchIds |-> {}]]

\* watchDVMResults(myPubkey, callback, {relays, secretKey})
WatchDVMResults(secretKey, conn) ==
  /\ calc = NoCall
  /\ calc' = Watching(secretKey, conn)
  /\ UNCHANGED <<now, storeVars, queryVars, relayVars>>

WatchStep(next) ==
  /\ calc.op = "watchDVMResults"
  /\ calc' = next
  /\ UNCHANGED <<now, storeVars, queryVars, relayVars>>

\* ws.on('open'): the REQ is sent.
WatchOpened(r) ==
  /\ calc.op = "watchDVMResults" /\ calc.conn[r] = "connecting"
  /\ WatchStep([calc EXCEPT !.conn[r] = "open"])

\* ws.on('message') up to its first await: the frame is dropped unless it is
\* an EVENT of the subscription with an id not seen; the id is marked, the
\* event parsed, and the callback called.
WatchMessage(r, msg) ==
  /\ calc.op = "watchDVMResults" /\ calc.conn[r] \in {"open", "closing"}
  /\ IF msg.type # "EVENT" \/ ~msg.own
       THEN WatchStep(calc)
     ELSE
       LET event == msg.event
           noted == [calc EXCEPT !.delivered[event.id] =
                                   @ \cup {<<r, calc.connects[r]>>}]
       IN IF event.id \in calc.seen
            THEN WatchStep(noted)
          ELSE
            LET marked == [noted EXCEPT !.seen = SeenAdd(@, event.id)]
                parsed == WatchParsed(event)
            IN IF parsed = {}
                 THEN WatchStep(marked)
                 ELSE WatchStep(
                        [marked EXCEPT
                           !.calls[event.id] = @ + 1,
                           !.handlers = @ \cup
                             {Handler(r, event.id, calc.calls[event.id] + 1,
                                      "callback", p.attestable) :
                                p \in parsed}])

\* The callback's promise settles: with a truthy value, a secret key and an
\* attestable result the handler goes on to publishReceipt, else it ends (a
\* rejection is swallowed).
WatchCallbackSettles(h, outcome) ==
  /\ calc.op = "watchDVMResults"
  /\ h \in calc.handlers /\ h.at = "callback"
  /\ IF outcome = "truthy" /\ calc.secretKey /\ h.attestable
       THEN WatchStep([calc EXCEPT !.handlers =
                         (@ \ {h}) \cup {[h EXCEPT !.at = "publishReceipt"]}])
       ELSE WatchStep([calc EXCEPT !.handlers = @ \ {h}])

\* publishReceipt returns or throws; either way the handler ends.
WatchPublishSettles(h) ==
  /\ calc.op = "watchDVMResults"
  /\ h \in calc.handlers /\ h.at = "publishReceipt"
  /\ WatchStep([calc EXCEPT !.handlers = @ \ {h}])

\* ws.on('error'): ws.close().
WatchErrored(r) ==
  /\ calc.op = "watchDVMResults" /\ calc.conn[r] \in {"connecting", "open"}
  /\ WatchStep([calc EXCEPT !.conn[r] = "closing"])

\* ws.on('close'): the connection is forgotten and, unless the watcher was
\* stopped, a reconnect is scheduled.
WatchClosed(r) ==
  /\ calc.op = "watchDVMResults"
  /\ calc.conn[r] \in {"connecting", "open", "closing"}
  /\ WatchStep([calc EXCEPT !.conn[r] =
                  IF calc.stopped THEN "off" ELSE "waiting"])

\* The reconnect timer fires: connectRelay, whose constructor may throw.
WatchReconnects(r, thrown) ==
  /\ calc.op = "watchDVMResults" /\ calc.conn[r] = "waiting"
  /\ calc.stopped \/ calc.connects[r] < MaxConnects
  /\ IF calc.stopped THEN WatchStep([calc EXCEPT !.conn[r] = "off"])
     ELSE IF thrown THEN WatchStep(calc)
     ELSE WatchStep([calc EXCEPT !.conn[r] = "connecting",
                                 !.connects[r] = @ + 1])

\* stop(): every connection is closed.
WatchStopped ==
  /\ calc.op = "watchDVMResults" /\ ~calc.stopped
  /\ WatchStep([calc EXCEPT
                  !.stopped = TRUE,
                  !.conn = [r \in WatchRelays |->
                              IF calc.conn[r] \in {"connecting", "open"}
                                THEN "closing" ELSE calc.conn[r]]])

\* The handlers suspended at an await.
WatchHandlers == IF calc.op = "watchDVMResults" THEN calc.handlers ELSE {}

NextWatch ==
  \/ \E secretKey \in BOOLEAN,
        conn \in [WatchRelays -> {"connecting", "waiting"}] :
          WatchDVMResults(secretKey, conn)
  \/ \E r \in WatchRelays : WatchOpened(r)
  \/ \E r \in WatchRelays, msg \in WatchMessages : WatchMessage(r, msg)
  \/ \E h \in WatchHandlers, outcome \in {"truthy", "falsy", "rejects"} :
        WatchCallbackSettles(h, outcome)
  \/ \E h \in WatchHandlers : WatchPublishSettles(h)
  \/ \E r \in WatchRelays : WatchErrored(r)
  \/ \E r \in WatchRelays : WatchClosed(r)
  \/ \E r \in WatchRelays, thrown \in BOOLEAN : WatchReconnects(r, thrown)
  \/ WatchStopped

\* One watcher over two relays.
SpecWatch == Constructed({"unset"}) /\ [][NextWatch]_vars

\* ------------------------------------------------------------------------
\* queryZapsForEvents (lib/wot.js): the loop over the zap receipts
\* ------------------------------------------------------------------------

\* The most receipts the relays answer with.
MaxReceipts == 3

\* The attestation ids asked for.
ZapTargets == {"E1", "E2"}

\* The description tag of a receipt: a string that JSON.parse accepts or
\* not, and the tags of the zap request it holds.
Description(valid, tags) == [valid |-> valid, tags |-> tags]

\* A kind-9735 receipt: its 'e' tag values in order and its description tag,
\* if any.
Receipt(id, e, description) == [id |-> id, e |-> e, description |-> description]

\* The receipts the relays may hold: for E1 amounts of 1000 and 2500
\* millisats, an amount that is no number, a negative one, no description, a
\* description that does not parse, a request without amount; one for E2;
\* one without 'e' tag.
ReceiptPool ==
  { Receipt(1, <<"E1">>, {Description(TRUE, <<Tag("amount", <<"1", "0", "0", "0">>)>>)}),
    Receipt(2, <<"E1">>, {Description(TRUE, <<Tag("amount", <<"2", "5", "0", "0">>)>>)}),
    Receipt(3, <<"E1">>, {Description(TRUE, <<Tag("amount", <<"a", "b", "c">>)>>)}),
    Receipt(4, <<"E1">>, {Description(TRUE, <<Tag("amount", <<"-", "1", "0", "0", "0">>)>>)}),
    Receipt(5, <<"E1">>, {}),
    Receipt(6, <<"E1">>, {Description(FALSE, <<>>)}),
    Receipt(7, <<"E1">>, {Description(TRUE, <<Tag("p", <<"U">>)>>)}),
    Receipt(8, <<"E2">>, {Description(TRUE, <<Tag("amount", <<"9", "9", "9">>)>>)}),
    Receipt(9, <<>>, {Description(TRUE, <<Tag("amount", <<"1", "0", "0", "0">>)>>)}) }

\* a + b on JavaScript numbers.
Plus(a, b) == IF a.nan \/ b.nan THEN NaN ELSE Num(a.val + b.val)

\* x || 0: undefined, 0 and NaN read as 0.
OrZero(x) == IF x = {} THEN Num(0)
             ELSE LET v == CHOOSE y \in x : TRUE
                  IN IF v.nan THEN Num(0) ELSE v

\* new Map(): no key.
NoTotals == [has |-> {}, val |-> [id \in ZapTargets |-> Num(0)]]

\* zapTotals.get(id): undefined, or the number.
TotalOf(totals, id) == IF id \in totals.has THEN {totals.val[id]} ELSE {}

\* The body of the loop for one receipt.
ZapCounted(totals, receipt) ==
  IF receipt.e = <<>> \/ receipt.description = {} THEN totals
  ELSE
    LET targetEventId == Head(receipt.e)
        descTag == CHOOSE d \in receipt.description : TRUE
        amountTag == findTagValue(descTag.tags, "amount")
    IN IF ~descTag.valid \/ amountTag = {} THEN totals
       ELSE
         LET msats == parseInt(CHOOSE v \in amountTag : TRUE)
             sats == FloorThousandth(msats)
         IN [has |-> totals.has \cup {targetEventId},
             val |-> [totals.val EXCEPT ![targetEventId] =
                        Plus(OrZero(TotalOf(totals, targetEventId)), sats)]]

RECURSIVE ZapLoop(_, _)
\* for (const receipt of zapReceipts) ...
ZapLoop(receipts, totals) ==
  IF receipts = <<>> THEN totals
  ELSE ZapLoop(Tail(receipts), ZapCounted(totals, Head(receipts)))

\* One queryZapsForEvents call: the receipts fetched and the Map returned.
ZapsQueried(receipts) ==
  [op |-> "queryZapsForEvents", receipts |-> receipts,
   out |-> ZapLoop(receipts, NoTotals)]

\* The relays answer the next call with one more receipt.
ReceiptFetched(receipt) ==
  /\ calc.op \in {"none", "queryZapsForEvents"}
  /\ LET receipts == IF calc.op = "none" THEN <<>> ELSE calc.receipts
     IN /\ Len(receipts) < MaxReceipts
        /\ receipt \notin Range(receipts)
        /\ calc' = ZapsQueried(Append(receipts, receipt))
  /\ UNCHANGED <<now, storeVars, queryVars, relayVars>>

NextZaps == \E receipt \in ReceiptPool : ReceiptFetched(receipt)

\* queryZapsForEvents over every answer of the bounded sets.
SpecZaps == Constructed({"unset"}) /\ [][NextZaps]_vars

\* ------------------------------------------------------------------------
\* generateReceiptCandidate / publishReceipt (lib/receipts.js)
\* ------------------------------------------------------------------------

\* opts.rating as the caller may give it, in tenths (2.5 is 25); a value that
\* may be absent is a set of at most one element.
RatingInputs ==
  {{}} \cup {{r} : r \in {0 - 30, 0 - 5, 0, 4, 5, 10, 25, 34, 50, 54, 55, 90}}

\* Math.round of a number given in tenths.
MathRound(tenths) == (tenths + 5) \div 10

\* opts.rating ? Math.max(1, Math.min(5, Math.round(opts.rating))) : null
RatingOf(rating) ==
  IF rating # {} /\ rating # {0}
    THEN {LET r == MathRound(CHOOSE x \in rating : TRUE)
          IN IF r < 1 THEN 1 ELSE IF r > 5 THEN 5 ELSE r}
    ELSE {}

\* One part of the comment, joined with ' | '.
Part(seg, value) == [seg |-> seg, value |-> value]

\* parts: 'DVM receipt', the kind, the sats if any, rating:R/5 if any, the
\* caller's comment if any.
ReceiptComment(requestKind, sats, rating, comment) ==
  <<Part("DVM receipt", 0), Part("kind", requestKind)>>
    \o (IF sats # {} /\ sats # {0}
          THEN <<Part("sats", CHOOSE x \in sats : TRUE)>> ELSE <<>>)
    \o (IF rating # {} /\ rating # {0}
          THEN <<Part("rating", CHOOSE x \in rating : TRUE)>> ELSE <<>>)
    \o (IF comment # "" THEN <<Part("comment", 1)>> ELSE <<>>)

\* A parsed DVM result as far as the receipt reads it; "" is a missing field.
DvmResult(dvmPubkey, resultEventId, amountSats) ==
  [dvmPubkey |-> dvmPubkey, resultEventId |-> resultEventId,
   requestKind |-> 5050, amountSats |-> amountSats]

\* What a call returns: the error it threw, or the built record.
Built(err, type, comment, targetPubkey, eventRef, sats, rating) ==
  [err |-> err, type |-> type, comment |-> comment,
   targetPubkey |-> targetPubkey, eventRef |-> eventRef,
   amountSats |-> sats, rating |-> rating]

Thrown(err) == Built(err, "", <<>>, "", "", {}, {})

\* generateReceiptCandidate(dvmResult, opts)
generateReceiptCandidate(dvmResult, opts) ==
  IF dvmResult.dvmPubkey = "" THEN Thrown("dvmPubkey")
  ELSE IF dvmResult.resultEventId = "" THEN Thrown("resultEventId")
  ELSE
    LET type == IF opts.type # "" THEN opts.type ELSE "service-quality"
        sats == IF opts.amountSats # {} /\ opts.amountSats # {0}
                  THEN opts.amountSats
                ELSE IF dvmResult.amountSats # {0} THEN dvmResult.amountSats
                ELSE {}
        rating == RatingOf(opts.rating)
    IN Built("", type,
             ReceiptComment(dvmResult.requestKind, sats, rating, opts.comment),
             dvmResult.dvmPubkey, dvmResult.resultEventId, sats, rating)

\* publishReceipt(secretKey, dvmResult, opts) up to the receipt it returns:
\* with opts.candidate the candidate's fields are taken as they are, else
\* they are built as above; publishAttestation checks and signs.
publishReceipt(dvmResult, opts, candidate) ==
  LET c == IF candidate # {} THEN CHOOSE x \in candidate : TRUE
           ELSE generateReceiptCandidate(dvmResult, opts)
      err == IF c.err # "" THEN c.err
             ELSE PublishError(c.type, c.targetPubkey, "c", TRUE)
  IN IF err # "" THEN Thrown(err) ELSE c

\* The options of a call.
ReceiptOpts(rating, comment) ==
  [type |-> "", amountSats |-> {}, rating |-> rating, comment |-> comment]

\* The DVM results handed in: complete with and without an amount, without
\* provider key, without result event id.
DvmResults ==
  { DvmResult("pk64", "R", {21}), DvmResult("pk64", "R", {}),
    DvmResult("", "R", {21}), DvmResult("pk64", "", {}) }

\* generateReceiptCandidate(dvmResult, {rating, comment})
GenerateReceiptCandidate(dvmResult, rating, comment) ==
  /\ calc' = [op |-> "generateReceiptCandidate", dvmResult |-> dvmResult,
              rating |-> rating,
              out |-> generateReceiptCandidate(dvmResult,
                                               ReceiptOpts(rating, comment))]
  /\ UNCHANGED <<now, storeVars, queryVars, relayVars>>

\* publishReceipt(secretKey, dvmResult, {rating, comment}), or with the
\* candidate the last generateReceiptCandidate call returned.
PublishReceipt(dvmResult, rating, comment, withCandidate) ==
  /\ withCandidate =>
       calc.op = "generateReceiptCandidate" /\ calc.out.err = ""
  /\ calc' = [op |-> "publishReceipt",
              dvmResult |-> IF withCandidate THEN calc.dvmResult ELSE dvmResult,
              rating |-> IF withCandidate THEN calc.rating ELSE rating,
              out |-> IF withCandidate
                        THEN publishReceipt(calc.dvmResult,
                                            ReceiptOpts({}, ""), {calc.out})
                        ELSE publishReceipt(dvmResult,
                                            ReceiptOpts(rating, comment), {})]
  /\ UNCHANGED <<now, storeVars, queryVars, relayVars>>

NextReceiptCandidate ==
  \/ \E d \in DvmResults, rating \in RatingInputs, comment \in {"", "c"} :
          GenerateReceiptCandidate(d, rating, comment)
  \/ \E d \in DvmResults, rating \in RatingInputs, comment \in {"", "c"},
        withCandidate \in BOOLEAN :
          PublishReceipt(d, rating, comment, withCandidate)

\* Receipts built for one DVM result after another.
SpecReceiptCandidate ==
  Constructed({"unset"}) /\ [][NextReceiptCandidate]_vars

\* ------------------------------------------------------------------------
\* Scoring kernel: computeScore called on one input after another
\* ------------------------------------------------------------------------

\* The most records handed to the kernel in one call.
MaxAtts == 3

\* Times, in half-lives: no record is older than four.
ScoreTimes == 0..4

\* The records a caller may hand to the kernel, all about K: a positive one,
\* the same edge and type again later, another type on that edge still later,
\* a dispute, a later dispute of the same author with a blank comment, a late
\* warning, an unknown type, a record without the namespace, and a positive
\* one by the second author.
ScoreRecords ==
  { Attestation(1, "A", "K", "service-quality", 0, "c", TRUE),
    Attestation(2, "A", "K", "service-quality", 1, "c", TRUE),
    Attestation(3, "A", "K", "general-trust", 4, "c", TRUE),
    Attestation(4, "B", "K", "dispute", 0, "c", TRUE),
    Attestation(5, "B", "K", "dispute", 2, " ", TRUE),
    Attestation(6, "B", "K", "warning", 4, "c", TRUE),
    Attestation(7, "A", "K", "bogus", 0, "c", TRUE),
    [Attestation(8, "B", "K", "service-quality", 0, "c", TRUE) EXCEPT !.L = ""],
    Attestation(9, "B", "K", "work-completed", 2, "c", TRUE) }

ScoreIds == {r.id : r \in ScoreRecords}

\* What the resolver may answer for an attester: unknown (below the gate),
\* or display 50.
ResolverResults == {Resolved(0, 0), Resolved(500, 50)}

\* The satoshis of a zapped record.
ZapSats == 3

\* One kernel call: its arguments and the ScoreResult.
Scored(atts, zaps, resolver, depth, t) ==
  [op |-> "computeScore", atts |-> atts, zaps |-> zaps, resolver |-> resolver,
   depth |-> depth, now |-> t,
   out |-> computeScore(atts, zaps, depth, EmptyCache,
                        Injected(resolver, t)).result]

\* The kernel is called on no records, at depth 0 or at the depth budget.
InitKernel ==
  /\ candidates = <<>>
  /\ now = 0
  /\ onPersist = "unset"
  /\ persisted = <<>>
  /\ inflight = {}
  /\ eventSeq = 0
  /\ ret = Returned("new", "", "ok")
  /\ maxAge = 1
  /\ maxCandidates = 1
  /\ net = {}
  /\ last = NoQuery
  /\ fan = IdleFan
  /\ pub = IdlePub
  /\ \E depth \in {0, maxDepth} :
       calc = Scored(<<>>, [id \in ScoreIds |-> 0],
                     [k \in Keys |-> Resolved(0, 0)], depth, 0)

\* The next call has one more record.
Attested(rec) ==
  /\ Len(calc.atts) < MaxAtts
  /\ rec \notin Range(calc.atts)
  /\ calc' = Scored(SortById(Range(calc.atts) \cup {rec}), calc.zaps,
                    calc.resolver, calc.depth, calc.now)
  /\ UNCHANGED <<now, storeVars, queryVars, relayVars>>

\* The next call finds a record zapped.
Zapped(id) ==
  /\ calc.zaps[id] = 0
  /\ calc' = Scored(calc.atts, [calc.zaps EXCEPT ![id] = ZapSats],
                    calc.resolver, calc.depth, calc.now)
  /\ UNCHANGED <<now, storeVars, queryVars, relayVars>>

\* The next call's resolver answers differently for an attester.
Resolves(k, result) ==
  /\ calc.resolver[k] # result
  /\ calc' = Scored(calc.atts, calc.zaps, [calc.resolver EXCEPT ![k] = result],
                    calc.depth, calc.now)
  /\ UNCHANGED <<now, storeVars, queryVars, relayVars>>

\* The next call is made one half-life later.
Later ==
  /\ calc.now + 1 \in ScoreTimes
  /\ calc' = Scored(calc.atts, calc.zaps, calc.resolver, calc.depth,
                    calc.now + 1)
  /\ UNCHANGED <<now, storeVars, queryVars, relayVars>>

NextKernel ==
  \/ \E rec \in ScoreRecords : Attested(rec)
  \/ \E id \in {4} : Zapped(id)
  \/ \E k \in {"A", "B"}, result \in ResolverResults : Resolves(k, result)
  \/ Later

\* The kernel called on every input of the bounded sets.
SpecKernel == InitKernel /\ [][NextKernel]_vars

\* ------------------------------------------------------------------------
\* Scoring kernel: calculateDiversity called on one breakdown after another
\* ------------------------------------------------------------------------

\* The most entries of a breakdown.
MaxBreakdown == 4

\* The entries of a breakdown: per attester a dispute, a half and a whole
\* contribution, and one gated entry.
DiversityEntries ==
  { [attester |-> k, contribution |-> c, gated |-> FALSE] :
      k \in Keys, c \in {0 - Unit, Unit \div 2, Unit} }
    \cup {[attester |-> "A", contribution |-> 0, gated |-> TRUE]}

\* One calculateDiversity call: its argument and its result.
Diversified(breakdown) ==
  [op |-> "calculateDiversity", breakdown |-> breakdown,
   out |-> calculateDiversity(breakdown)]

\* calculateDiversity is called on the empty breakdown.
InitDiversity ==
  /\ candidates = <<>>
  /\ now = 0
  /\ onPersist = "unset"
  /\ persisted = <<>>
  /\ inflight = {}
  /\ eventSeq = 0
  /\ ret = Returned("new", "", "ok")
  /\ maxAge = 1
  /\ maxCandidates = 1
  /\ net = {}
  /\ last = NoQuery
  /\ fan = IdleFan
  /\ pub = IdlePub
  /\ calc = Diversified(<<>>)

\* The next call has one more entry.
Contributed(entry) ==
  /\ Len(calc.breakdown) < MaxBreakdown
  /\ calc' = Diversified(Append(calc.breakdown, entry))
  /\ UNCHANGED <<now, storeVars, queryVars, relayVars>>

NextDiversity == \E entry \in DiversityEntries : Contributed(entry)

\* calculateDiversity called on every breakdown of the bounded sets.
SpecDiversity == InitDiversity /\ [][NextDiversity]_vars

\* ------------------------------------------------------------------------
\* calculateTrustScore over attestation graphs
\* ------------------------------------------------------------------------

\* One attestation per ordered pair of peers, a dispute among them: every
\* graph over the three keys, cyclic ones included, is a subset.
GraphEvents ==
  { Attestation(1, "A", "B", "service-quality", 0, "c", TRUE),
    Attestation(2, "B", "A", "service-quality", 0, "c", TRUE),
    Attestation(3, "A", "K", "service-quality", 0, "c", TRUE),
    Attestation(4, "K", "A", "dispute", 0, "c", TRUE),
    Attestation(5, "B", "K", "work-completed", 0, "c", TRUE),
    Attestation(6, "K", "B", "general-trust", 0, "c", TRUE) }

\* One top-level call: the key, the relays' events, the log of the calls it
\* made, the memo it leaves behind, the time and the result.
Traced(pubkey, relays, t) ==
  LET top == calculateTrustScore(pubkey, 0, EmptyCache, relays, t)
  IN [op |-> "calculateTrustScore", pubkey |-> pubkey, relays |-> relays,
      log |-> top.cache.log, memo |-> top.cache.val, at |-> t,
      out |-> top.result]

\* calculateTrustScore(pubkey) with a fresh memo.
Scores(pubkey) ==
  /\ calc' = Traced(pubkey, net, now)
  /\ UNCHANGED <<now, net, last, storeVars, relayVars>>

NextGraph ==
  \/ \E ev \in GraphEvents : RelayStores(ev)
  \/ \E pubkey \in Keys : Scores(pubkey)

\* Scores asked while the attestation graph grows.
SpecGraph == InitQuery /\ [][NextGraph]_vars

\* ------------------------------------------------------------------------
\* Scoring kernel: deduplicateAttestations called on one list after another
\* ------------------------------------------------------------------------

\* The longest list handed to deduplicateAttestations.
MaxList == 4

\* Records of one group at two times, two of them at the same time; of
\* another type and of another author, two at the same time; about another
\* target.
DedupRecords ==
  { Attestation(1, "A", "K", "service-quality", 0, "c", TRUE),
    Attestation(2, "A", "K", "service-quality", 1, "c", TRUE),
    Attestation(3, "A", "K", "service-quality", 1, "c", TRUE),
    Attestation(4, "A", "K", "general-trust", 0, "c", TRUE),
    Attestation(5, "B", "K", "service-quality", 0, "c", TRUE),
    Attestation(6, "B", "K", "service-quality", 0, "c", TRUE),
    Attestation(7, "A", "B", "service-quality", 1, "c", TRUE) }

\* One deduplicateAttestations call: its argument and its result.
Deduplicated(atts) ==
  [op |-> "deduplicateAttestations", atts |-> atts,
   out |-> deduplicateAttestations(atts)]

\* The next call has one more record at the end of its list.
Listed(rec) ==
  /\ calc.op \in {"none", "deduplicateAttestations"}
  /\ LET atts == IF calc.op = "none" THEN <<>> ELSE calc.atts
     IN /\ Len(atts) < MaxList
        /\ rec \notin Range(atts)
        /\ calc' = Deduplicated(Append(atts, rec))
  /\ UNCHANGED <<now, storeVars, queryVars, relayVars>>

\* deduplicateAttestations([])
ListedNone ==
  /\ calc.op = "none"
  /\ calc' = Deduplicated(<<>>)
  /\ UNCHANGED <<now, storeVars, queryVars, relayVars>>

NextDedup ==
  \/ ListedNone
  \/ \E rec \in DedupRecords : Listed(rec)

\* deduplicateAttestations called on every list of the bounded sets.
SpecDedup == Constructed({"unset"}) /\ [][NextDedup]_vars

\* ------------------------------------------------------------------------
\* Scoring kernel: the novelty bonus
\* ------------------------------------------------------------------------

\* One author's records about K: a type at two times, another type at the
\* first time and a third at the second; and a record of another author at
\* the second time.
NoveltyRecords ==
  { Attestation(1, "A", "K", "service-quality", 0, "c", TRUE),
    Attestation(2, "A", "K", "service-quality", 1, "c", TRUE),
    Attestation(3, "A", "K", "work-completed", 0, "c", TRUE),
    Attestation(4, "A", "K", "general-trust", 1, "c", TRUE),
    Attestation(5, "B", "K", "service-quality", 1, "c", TRUE) }

NextNovelty ==
  \/ \E rec \in NoveltyRecords : Attested(rec)
  \/ Later

\* The kernel called on the lists of one edge's records.
SpecNovelty == InitKernel /\ [][NextNovelty]_vars

\* ------------------------------------------------------------------------
\* Candidate store: properties
\* ------------------------------------------------------------------------

TerminalStatuses == {"rejected", "published", "expired"}

AllowedTransitions ==
  { <<"pending", "confirmed">>, <<"pending", "rejected">>,
    <<"pending", "expired">>, <<"confirmed", "published">> }

\* Status of the candidate stored under id, as a set of at most one status.
StatusOf(cands, id) == {c.status : c \in Get(cands, id)}

\* C1: for every candidate id, one step of any operation changes the status
\* only along pending->confirmed, pending->rejected, pending->expired or
\* confirmed->published, and a candidate that is rejected, published or
\* expired keeps its status, comment, type and publishedEventId.
C1_StatusMachine ==
  [][\A id \in CandIds : \A c \in Get(candidates, id) :
       \A d \in Get(candidates', id) :
         /\ c.status = d.status \/ <<c.status, d.status>> \in AllowedTransitions
         /\ c.status \in TerminalStatuses =>
              /\ d.status = c.status
              /\ d.comment = c.comment
              /\ d.type = c.type
              /\ d.publishedEventId = c.publishedEventId]_vars

\* C2: confirm(id) or reject(id) on a candidate that is not pending, and
\* markPublished(id, eventId) on a candidate that is not confirmed or on an
\* unknown id, return null and leave the store exactly as it was.
C2_IllegalTransitionNoEffect ==
  [][( \/ /\ ret'.op \in {"confirm", "reject"}
          /\ "pending" \notin StatusOf(candidates, ret'.id)
       \/ /\ ret'.op = "markPublished"
          /\ "confirmed" \notin StatusOf(candidates, ret'.id) )
     => (ret'.res = "null" /\ candidates' = candidates)]_vars

\* C7: when every relay rejected the event or timed out, the completion of
\* confirmAndPublish leaves a confirmed candidate confirmed with
\* publishedEventId null.
C7_AllRelaysFailKeepsConfirmed ==
  [][(ret'.op = "confirmAndPublish" /\ ret'.res = "ok" /\ ret'.accepted = 0)
     => \A c \in Get(candidates, ret'.id) :
          (c.status = "confirmed" /\ c.publishedEventId = NoEvent)
            => \A d \in Get(candidates', c.id) :
                 d.status = "confirmed" /\ d.publishedEventId = NoEvent]_vars

\* C8: when the publish step of confirmAndPublish throws (unknown type,
\* target key not 64 characters, negative type with blank comment, signing
\* failure), the caller gets the error and the candidate is stored in
\* status confirmed with publishedEventId null.
C8_PublishErrorLeavesConfirmed ==
  (ret.op = "confirmAndPublish" /\ ret.res = "throw")
    => /\ ret.err \in {"type", "key", "comment", "sign"}
       /\ \E c \in Get(candidates, ret.id) :
            c.status = "confirmed" /\ c.publishedEventId = NoEvent

\* C8 witness: a confirmAndPublish whose edits made the type unknown has
\* thrown, and the candidate carries the edited type.
C8_Witness ==
  /\ ret.op = "confirmAndPublish" /\ ret.res = "throw" /\ ret.err = "type"
  /\ \E c \in Get(candidates, ret.id) : c.type = "bogus" /\ c.status = "confirmed"

\* C9: when publishAllConfirmed returns, every candidate that was confirmed
\* at the call is published with its event id, or is in the returned list
\* with its error.
C9_PublishAllProcessesEveryConfirmed ==
  ret.op = "publishAllConfirmed"
    => \A id \in ret.ids :
         \/ id \in ret.errs
         \/ \E c \in Get(candidates, id) :
              c.status = "published" /\ c.publishedEventId # NoEvent

\* C10: with a persistence callback configured, the list it last received
\* equals export() whenever no operation is running.
C10_PersistedEqualsExport ==
  onPersist = "set" => persisted = Export(candidates)

\* ------------------------------------------------------------------------
\* Candidate store: callbacks, expiry, capacity, load, validation
\* ------------------------------------------------------------------------

\* The candidate stored under id, after a step, has the given status and was
\* last updated now.
Holds(id, status) ==
  \E c \in Get(candidates', id) : c.status = status /\ c.updatedAt = now

\* C11: with a persistence callback that raises, add, confirm, reject and
\* markPublished return normally (no exception reaches the caller, the call
\* yields the candidate) and the store holds the state the operation
\* produces: a candidate that passes add's check is stored as pending, a
\* pending candidate confirmed or rejected, a known candidate published.
C11_PersistThrowSwallowed ==
  [][onPersist = "throws" =>
       /\ ret'.err # "persist"
       /\ (ret'.op = "add" /\ ret'.err # "fields") =>
            ret'.res = "ok" /\ ret'.persistCalled /\ Holds(ret'.id, "pending")
       /\ (ret'.op = "confirm" /\ ConfirmOk(candidates, ret'.id)) =>
            ret'.res = "ok" /\ ret'.persistCalled /\ Holds(ret'.id, "confirmed")
       /\ (ret'.op = "reject" /\ ConfirmOk(candidates, ret'.id)) =>
            ret'.res = "ok" /\ ret'.persistCalled /\ Holds(ret'.id, "rejected")
       /\ (ret'.op = "markPublished" /\ Has(candidates, ret'.id)) =>
            ret'.res = "ok" /\ ret'.persistCalled /\ Holds(ret'.id, "published")
    ]_vars

\* confirm() has returned the candidate, now confirmed in the store, although
\* the persistence callback it invoked raised.
C11_Witness ==
  /\ onPersist = "throws"
  /\ ret.op = "confirm" /\ ret.res = "ok" /\ ret.persistCalled
  /\ \E c \in Get(candidates, ret.id) : c.status = "confirmed"

\* Created before the cutoff now - maxAge.
TooOld(c) == c.createdAt < now - maxAge

\* C12: when list() or stats() returns, no pending candidate is older than
\* now - maxAge: each one that was has become expired, is counted by stats()
\* under expired and not under pending, and is not listed as pending; a
\* confirmed, rejected or published candidate is left as it was.
C12_ExpiryOnEnumeration ==
  [][ret'.op \in {"list", "stats"} =>
       /\ Len(candidates') = Len(candidates)
       /\ \A i \in DOMAIN candidates :
            LET c == candidates[i]
                d == candidates'[i]
            IN /\ d.status = "pending" => ~TooOld(d)
               /\ (c.status = "pending" /\ TooOld(c)) => d.status = "expired"
               /\ c.status \in {"confirmed", "rejected", "published"} => d = c
               /\ (ret'.op = "list" /\ ret'.id = "pending" /\ d.id \in ret'.ids)
                    => c.status = "pending" /\ ~TooOld(c)
       /\ ret'.op = "stats" =>
            /\ ret'.counts.pending =
                 Cardinality({i \in DOMAIN candidates :
                    candidates[i].status = "pending" /\ ~TooOld(candidates[i])})
            /\ ret'.counts.expired =
                 Cardinality({i \in DOMAIN candidates :
                    \/ candidates[i].status = "expired"
                    \/ candidates[i].status = "pending" /\ TooOld(candidates[i])})
    ]_vars

\* stats() has just moved an old pending candidate to expired and counted it.
C12_Witness ==
  /\ ret.op = "stats"
  /\ ret.counts.expired = 1 /\ ret.counts.pending = 0
  /\ \E i \in DOMAIN candidates :
       /\ candidates[i].status = "expired"
       /\ candidates[i].updatedAt = now
       /\ TooOld(candidates[i])

\* C13: in a store filled through add() alone, there are never more than
\* maxCandidates candidates, and the candidate add() has just returned is in
\* the store.
C13_CapacityKept ==
  /\ Len(candidates) <= maxCandidates
  /\ (ret.op = "add" /\ ret.res = "ok") =>
       \E c \in Get(candidates, ret.id) : c.status = "pending"

\* add() has returned on a full store: it evicted a candidate and stored the
\* new one.
C13_Witness ==
  /\ ret.op = "add" /\ ret.res = "ok"
  /\ ret.ids # {} /\ ret.id \notin ret.ids
  /\ Len(candidates) = maxCandidates
  /\ Has(candidates, ret.id)

\* C14: load() stores every candidate of its list as it is, and a candidate
\* in status rejected, published or expired is not actionable: list with
\* status pending does not return it, and a call of confirm, reject or
\* confirmAndPublish on its id returns null, leaves it as it is and signs no
\* event.
C14_LoadedTerminalNotActionable ==
  [][/\ ret'.op = "load" =>
          \E list \in LoadInputs :
            \A i \in DOMAIN list : list[i] \in Get(candidates', list[i].id)
     /\ \A id \in CandIds : \A c \in Get(candidates, id) :
          c.status \in TerminalStatuses =>
            /\ (ret'.op = "list" /\ ret'.id = "pending") => id \notin ret'.ids
            /\ (/\ ret'.op \in {"confirm", "reject", "confirmAndPublish"}
                /\ ret'.id = id
                /\ inflight \subseteq inflight') =>
                 /\ ret'.res = "null"
                 /\ Get(candidates', id) = {c}
                 /\ eventSeq' = eventSeq
                 /\ inflight' = inflight
    ]_vars

\* confirmAndPublish has returned null on a candidate that was loaded as
\* rejected and still is.
C14_Witness ==
  /\ ret.op = "confirmAndPublish" /\ ret.res = "null"
  /\ \E c \in Get(candidates, ret.id) :
       c.source = "dvm" /\ c.status = "rejected"

\* C15: add() of a candidate without a type, target key or comment raises:
\* the store and what was persisted are as before, nothing is evicted, no
\* callback is invoked; no candidate with such a field missing is ever in
\* the store.
C15_AddRejectsMissingFields ==
  [][/\ (ret'.op = "add" /\ ret'.res = "throw") =>
          /\ candidates' = candidates
          /\ persisted' = persisted
          /\ ~ret'.persistCalled /\ ~ret'.notified
          /\ ret'.ids = {}
     /\ \A i \in DOMAIN candidates' :
          /\ candidates'[i].type # ""
          /\ candidates'[i].targetPubkey # ""
          /\ candidates'[i].comment # ""
    ]_vars

\* add() has raised on a full store whose persistence callback is set, and
\* the stored candidate is still there, persisted as it was.
C15_Witness ==
  /\ ret.op = "add" /\ ret.res = "throw" /\ ret.err = "fields"
  /\ onPersist = "set"
  /\ Len(candidates) = maxCandidates
  /\ persisted = Export(candidates)

\* C30: add() on a full store removes exactly one candidate before it
\* inserts: an oldest (by createdAt) rejected, published or expired one when
\* there is one, otherwise an oldest pending one; so a confirmed candidate
\* goes only when the store holds nothing but confirmed candidates.
C30_EvictsTerminalThenPending ==
  [][(/\ ret'.op = "add" /\ ret'.res = "ok"
      /\ Len(candidates) >= maxCandidates) =>
       LET terminal == {i \in DOMAIN candidates :
                          candidates[i].status \in TerminalStatuses}
           pending == {i \in DOMAIN candidates :
                         candidates[i].status = "pending"}
           OldestOf(S) ==
             {candidates[i].id : i \in {k \in S : \A j \in S :
                candidates[k].createdAt <= candidates[j].createdAt}}
       IN /\ Cardinality(ret'.ids) = 1
          /\ terminal # {} => ret'.ids \subseteq OldestOf(terminal)
          /\ (terminal = {} /\ pending # {}) =>
               ret'.ids \subseteq OldestOf(pending)
    ]_vars

C38_PublishedEventIdStable ==
  [][/\ \A i \in DOMAIN candidates' :
          (candidates'[i].publishedEventId # NoEvent)
            <=> (candidates'[i].status = "published")
     /\ ret'.op \notin {"add", "publishAllConfirmed"} =>
          \A id \in CandIds : \A c \in Get(candidates, id) :
            \A d \in Get(candidates', id) :
              c.publishedEventId # NoEvent =>
                d.publishedEventId = c.publishedEventId]_vars

\* C39: confirm, reject and confirmAndPublish on a pending candidate that is
\* older than maxAge and has not been swept act on it as on any pending
\* candidate: it becomes confirmed (and its event is signed for the relays
\* unless the publish step throws) or rejected, never expired.
C39_NoExpiryOnConfirmReject ==
  [][\A c \in Get(candidates, ret'.id) :
       (c.status = "pending" /\ TooOld(c)) =>
         /\ ret'.op = "confirm" =>
              ret'.res = "ok" /\ StatusOf(candidates', c.id) = {"confirmed"}
         /\ ret'.op = "reject" =>
              ret'.res = "ok" /\ StatusOf(candidates', c.id) = {"rejected"}
         /\ (ret'.op = "confirmAndPublish" /\ c.id \notin {t.id : t \in inflight}) =>
              /\ ret'.res \in {"suspended", "throw"}
              /\ StatusOf(candidates', c.id) = {"confirmed"}
              /\ ret'.res = "suspended" =>
                   \E task \in inflight' \ inflight : task.id = c.id]_vars

\* confirmAndPublish has confirmed a candidate older than maxAge and its
\* event is on the way to the relays.
C39_Witness ==
  /\ ret.op = "confirmAndPublish" /\ ret.res = "suspended"
  /\ \E c \in Get(candidates, ret.id) :
       /\ c.status = "confirmed" /\ TooOld(c) /\ c.updatedAt = now
       /\ \E task \in inflight : task.id = c.id

\* ------------------------------------------------------------------------
\* queryRelays: properties
\* ------------------------------------------------------------------------

Ids(evts) == {evts[i].id : i \in DOMAIN evts}

\* C16: the list queryRelays resolves with holds no two events with the same
\* id, whatever the relays sent, to one socket or to several.
C16_ResultIdsUnique ==
  fan.status = "resolved" =>
    \A i, j \in DOMAIN fan.result :
      fan.result[i].id = fan.result[j].id => i = j

\* Both relays have finished, each delivered an event with id 1, one of them
\* twice, and the result has it.
C16_Witness ==
  /\ fan.how = "all"
  /\ \A r \in RELAYS : 1 \in Ids(fan.buf[r])
  /\ \E r \in RELAYS : Len(fan.buf[r]) = 2 /\ Ids(fan.buf[r]) = {1}
  /\ 1 \in Ids(fan.result)

\* The result of merging what each relay handed over, taken in the order of
\* the relay list.
InListOrder(f) ==
  Merge(Merge(<<>>, Settled(f.buf["r1"], f.ended["r1"])),
        Settled(f.buf["r2"], f.ended["r2"]))

\* C17: when every relay task has finished, the events queryRelays resolves
\* with are the same set, id by id and body by body, as when the relays
\* finish in the order of the list: the order of completion does not show.
C17_MergeCommutes ==
  fan.how = "all" => Range(fan.result) = Range(InListOrder(fan))

\* C18: a relay that could not be connected, failed, or ran into its
\* deadline does not fail the call: the promise is pending or resolved, and
\* the result holds, for every relay that had finished by then, the ids of
\* all events that relay delivered before it finished.
C18_FailedRelayKeepsOthers ==
  /\ fan.status \in {"idle", "pending", "resolved"}
  /\ fan.status = "resolved" =>
       \A r \in fan.seen :
         fan.ended[r] # "connect" => Ids(fan.buf[r]) \subseteq Ids(fan.result)

\* The call has resolved although one relay timed out after delivering an
\* event and the other failed or could not be connected.
C18_Witness ==
  /\ fan.how = "all"
  /\ \E r, q \in RELAYS :
       /\ fan.ended[r] = "timeout" /\ fan.buf[r] # <<>>
       /\ fan.ended[q] \in {"connect", "error"}
  /\ fan.result # <<>>

\* C19: a queryRelays call always resolves, and what it resolved with stays:
\* at once and empty for no relays; else when the last relay task finishes
\* or, failing that, at the global deadline; a task that finishes later
\* changes nothing of the result.
C19_ResolvesOnceInTime ==
  /\ (fan.status = "pending") ~> (fan.status = "resolved")
  /\ [][fan.status = "resolved" =>
          fan'.status = "resolved" /\ fan'.result = fan.result]_vars
  /\ [](fan.status # "idle" /\ fan.relays = {} =>
          fan.status = "resolved" /\ fan.result = <<>>)
  /\ [](fan.status = "pending" => fan.completed < Cardinality(fan.relays))
  /\ [](fan.how = "deadline" => fan.clock = 2)

\* The call resolved at the global deadline while a relay task hung; that
\* task ended afterwards and its events are in the Map, not in the result.
C19_Witness ==
  /\ fan.status = "resolved" /\ fan.how = "deadline"
  /\ fan.completed = Cardinality(fan.relays)
  /\ Len(fan.events) > Len(fan.result)

\* ------------------------------------------------------------------------
\* publishToRelays: properties
\* ------------------------------------------------------------------------

\* C20: publishToRelays never rejects and sends the event at most once to a
\* relay; what it returns has exactly one outcome for each relay of the list;
\* an outcome is a success exactly when the task was settled by an accepting
\* OK of that relay, received while its timer was pending, and otherwise a
\* failure with a reason: the relay's or 'Rejected' for a rejecting OK,
\* 'Timeout' for the deadline, the error's message for a failed connection.
C20_OneOutcomePerRelay ==
  /\ pub.status \in {"idle", "pending", "returned"}
  /\ \A r \in RELAYS : pub.sent[r] <= 1
  /\ pub.status = "returned" =>
       /\ Len(pub.results) = Cardinality(pub.relays)
       /\ \A r \in pub.relays :
            /\ Cardinality({i \in DOMAIN pub.results :
                              pub.results[i].relay = r}) = 1
            /\ \A i \in DOMAIN pub.results :
                 pub.results[i].relay = r =>
                   /\ pub.results[i].success <=> pub.ended[r] = "accepted"
                   /\ ~pub.results[i].success => pub.results[i].reason # ""
                   /\ pub.ended[r] = "timeout" =>
                        pub.results[i].reason = "Timeout" /\ pub.clock >= 1
                   /\ pub.ended[r] = "accepted" => pub.sent[r] = 1

\* publishToRelays has returned one success and one failure: a relay that
\* accepted, and a relay that rejected, timed out or failed.
C20_Witness ==
  /\ pub.status = "returned"
  /\ Len(pub.results) = 2
  /\ \E i, j \in DOMAIN pub.results :
       /\ pub.results[i].success
       /\ ~pub.results[j].success
       /\ pub.ended[pub.results[j].relay] \in {"rejected", "timeout", "error"}

\* C28: a publishAttestation call with an unknown type, a target key that is
\* not 64 characters long, or a negative type with an empty or blank comment,
\* and a publishRevocation call with an event id that is not 64 characters
\* long or an empty reason, raises, and the call opens no socket and sends no
\* EVENT: the relay side is as it was.
C28_ValidatedBeforeNetwork ==
  [][calc' # calc =>
       /\ (/\ calc'.op = "publishAttestation"
           /\ \/ calc'.type \notin VALID_TYPES
              \/ StrLen(calc'.target) # 64
              \/ calc'.type \in NEGATIVE_TYPES /\ calc'.comment \in {"", " "})
            => calc'.res = "throw" /\ pub' = pub
       /\ (/\ calc'.op = "publishRevocation"
           /\ StrLen(calc'.target) # 64 \/ calc'.comment = "")
            => calc'.res = "throw" /\ pub' = pub
    ]_vars

\* A dispute with a blank comment has raised; no relay has been contacted
\* and nothing has been sent.
C28_Witness ==
  /\ calc.op = "publishAttestation" /\ calc.res = "throw"
  /\ calc.type = "dispute" /\ calc.comment = " "
  /\ pub.status = "idle"
  /\ \A r \in RELAYS : pub.sent[r] = 0

\* C31: a publishToRelay task resolves as accepted or rejected only in the
\* step that delivers, on its socket, an OK frame for the id of the event it
\* sent; an OK frame for another id and every other frame leave the task as
\* it was; a task that got no such frame ends at the deadline or on a socket
\* error.
C31_ResolvesOnOwnOkOnly ==
  [][\A r \in RELAYS :
       /\ (pub.task[r] # "done" /\ pub'.task[r] = "done"
           /\ pub'.ended[r] \in {"accepted", "rejected"}) =>
            /\ calc' = Received(r, calc'.frame)
            /\ calc'.frame.kind = "OK"
            /\ calc'.frame.id = SentEventId
       /\ (calc' # calc /\ calc'.op = "message" /\ calc'.relay = r
           /\ (calc'.frame.kind # "OK" \/ calc'.frame.id # SentEventId)) =>
            pub'.task[r] = pub.task[r]]_vars

\* ------------------------------------------------------------------------
\* calculateTrustScore: properties
\* ------------------------------------------------------------------------

\* C21: a score ends on every graph, cyclic ones included: the call makes at
\* most one call of its own per attestation; the target is fetched first and
\* a re-entry of it is answered from the memo with the placeholder; no key's
\* attestations are fetched twice in one invocation; nothing is resolved at a
\* depth greater than max_depth.
C21_TerminatesOnCycles ==
  calc.op = "calculateTrustScore" =>
    LET log == calc.log
    IN /\ Len(log) <= 1 + Cardinality(calc.relays)
       /\ log[1] = Called(calc.pubkey, 0, FALSE, placeholder)
       /\ \A i, j \in DOMAIN log :
            (i < j /\ log[i].pubkey = log[j].pubkey) => log[j].hit
       /\ \A i \in DOMAIN log :
            /\ log[i].depth <= maxDepth
            /\ (log[i].hit /\ log[i].pubkey = calc.pubkey) =>
                 log[i].result = placeholder

\* A attests B and B attests A: the score of A fetches B at depth 1, which
\* asks for A again at depth 2 and gets the placeholder.
C21_Witness ==
  /\ calc.op = "calculateTrustScore" /\ calc.pubkey = "A"
  /\ Len(calc.log) >= 3
  /\ \E i \in DOMAIN calc.log :
       calc.log[i] = Called("A", maxDepth, TRUE, placeholder)
  /\ calc.out.raw > 0

\* What the kernel reads of a resolved attester: the attester trust and the
\* display the gate compares.
SameTrust(r1, r2) ==
  attesterTrust(r1.raw) = attesterTrust(r2.raw) /\ r1.display = r2.display

\* The result of attester when it is the first key the invocation resolves:
\* at depth 1, the memo holding the target's placeholder only.
FirstReached(attester, target, relays, t) ==
  calculateTrustScore(attester, 1, CacheSet(EmptyCache, target, placeholder),
                      relays, t).result

\* C36: within one score(target) invocation what the memo answers for a key
\* depends neither on the order of the attestations nor on the depth at
\* which the key was first reached: every answer the memo gave for a key,
\* the placeholder answered on a cycle included, has the attester trust and
\* the gate input of the result the memo ends with for that key; and the
\* result used for a direct attester of the target has those of the result
\* the attester gets when its attestation is the first one processed.
C36_MemoIndependentOfOrderAndDepth ==
  calc.op = "calculateTrustScore" =>
    /\ \A i \in DOMAIN calc.log :
         calc.log[i].hit =>
           SameTrust(calc.log[i].result, calc.memo[calc.log[i].pubkey])
    /\ \A i \in DOMAIN calc.log :
         (calc.log[i].depth = 1 /\ calc.log[i].pubkey # calc.pubkey) =>
           SameTrust(calc.memo[calc.log[i].pubkey],
                     FirstReached(calc.log[i].pubkey, calc.pubkey,
                                  calc.relays, calc.at))

\* ------------------------------------------------------------------------
\* Scoring kernel: properties
\* ------------------------------------------------------------------------

\* The record parses to a recognised attestation type.
Recognised(a) == a.L = NAMESPACE /\ a.l \in VALID_TYPES

EntriesOf(out, a) == {i \in DOMAIN out.breakdown : out.breakdown[i].id = a.id}

AddedRecord(before, after) == CHOOSE a \in Range(after) : a \notin Range(before)

PositiveEntries(breakdown) ==
  {i \in DOMAIN breakdown :
     ~breakdown[i].gated /\ breakdown[i].contribution > 0}

\* The attesters of the positive entries.
PositiveAttesters(breakdown) ==
  {breakdown[i].attester : i \in PositiveEntries(breakdown)}

RECURSIVE SumOver(_, _)
\* The sum of the contributions of the entries at the indices S.
SumOver(breakdown, S) ==
  IF S = {} THEN 0
  ELSE LET i == CHOOSE j \in S : TRUE
       IN breakdown[i].contribution + SumOver(breakdown, S \ {i})

\* The positive contribution of one attester.
ShareOf(breakdown, k) ==
  SumOver(breakdown, {i \in PositiveEntries(breakdown) :
                        breakdown[i].attester = k})

\* Every attester of the positive entries contributes the same.
EqualAttesters(breakdown) ==
  \A k1, k2 \in PositiveAttesters(breakdown) :
    ShareOf(breakdown, k1) = ShareOf(breakdown, k2)

\* Bounds in hundredths, and nothing to measure gives zero.
DiversityBounded ==
  /\ calc.out.diversity \in 0..100
  /\ calc.out.maxAttesterShare \in 0..100
  /\ PositiveEntries(calc.breakdown) = {} =>
       calc.out.diversity = 0 /\ calc.out.uniqueAttesters = 0

\* C27 as stated: diversity and max_attester_share are in [0, 1]; k >= 1
\* distinct attesters with equal positive contribution give diversity
\* exactly 1 - 1/k; an empty or negative-only breakdown gives diversity 0 and
\* unique_attesters 0.
C27_DiversityExactOnUniform ==
  calc.op = "calculateDiversity" =>
    /\ DiversityBounded
    /\ LET k == Cardinality(PositiveAttesters(calc.breakdown))
       IN (k >= 1 /\ EqualAttesters(calc.breakdown)) =>
            calc.out.diversity * k = 100 * (k - 1)

\* C27 amended: the bounds and the empty case as stated; k >= 1 distinct
\* attesters with one positive entry each, of equal contribution, give
\* diversity 1 - 1/k rounded to two decimals.
C27_DiversityRoundedOnUniform ==
  calc.op = "calculateDiversity" =>
    /\ DiversityBounded
    /\ LET k == Cardinality(PositiveAttesters(calc.breakdown))
       IN (/\ k >= 1
           /\ EqualAttesters(calc.breakdown)
           /\ Cardinality(PositiveEntries(calc.breakdown)) = k) =>
            /\ calc.out.diversity = RoundDiv(100 * (k - 1), k)
            /\ calc.out.uniqueAttesters = k

\* Three attesters with one equal positive entry each, next to a dispute.
C27_Witness ==
  /\ calc.op = "calculateDiversity"
  /\ Cardinality(PositiveAttesters(calc.breakdown)) = 3
  /\ Cardinality(PositiveEntries(calc.breakdown)) = 3
  /\ EqualAttesters(calc.breakdown)
  /\ Len(calc.breakdown) = 4
  /\ calc.out.diversity = 67

\* The records of the list in the (author, target, type) group of a.
GroupOf(a, atts) == {b \in Range(atts) : SameGroup(a, b)}

\* C32: deduplicateAttestations returns records of its input, each once,
\* exactly one per (author, target, type) group: the one with the greatest
\* created_at and, among those, the greatest id; so records that differ in
\* author or in type are all kept; the empty list gives the empty list; and
\* deduplicating the result again changes nothing.
C32_DedupKeepsNewestPerGroup ==
  calc.op = "deduplicateAttestations" =>
    LET atts == calc.atts
        out == calc.out
    IN /\ Range(out) \subseteq Range(atts)
       /\ Cardinality(Range(out)) = Len(out)
       /\ \A a \in Range(atts) :
            \E b \in Range(out) :
              /\ GroupOf(a, out) = {b}
              /\ \A c \in GroupOf(a, atts) :
                   \/ c.created_at < b.created_at
                   \/ c.created_at = b.created_at /\ c.id <= b.id
       /\ (\A a, b \in Range(atts) : a # b => ~SameGroup(a, b)) => out = atts
       /\ atts = <<>> => out = <<>>
       /\ deduplicateAttestations(out) = out

\* Four records, two of one group at the same time among them: the one with
\* the greater id stands for the group.
C32_Witness ==
  /\ calc.op = "deduplicateAttestations" /\ Len(calc.atts) = 4
  /\ {2, 3, 4} \subseteq {a.id : a \in Range(calc.atts)}
  /\ Len(calc.out) < 4
  /\ 3 \in {a.id : a \in Range(calc.out)}
  /\ 2 \notin {a.id : a \in Range(calc.out)}

\* The earliest created_at of the (author, target) edge of a in the list.
EarliestOnEdge(a, atts) ==
  CHOOSE t \in {b.created_at : b \in Range(atts)} :
    /\ \E b \in Range(atts) :
         b.pubkey = a.pubkey /\ b.p = a.p /\ b.created_at = t
    /\ \A b \in Range(atts) :
         (b.pubkey = a.pubkey /\ b.p = a.p) => t <= b.created_at

C29_ParseDVMResult ==
  calc.op = "parseDVMResult" =>
    LET event == calc.event
        firstOf(name) ==
          {event.tags[i].value : i \in {k \in DOMAIN event.tags :
             /\ event.tags[k].name = name
             /\ \A j \in 1..(k - 1) : event.tags[j].name # name}}
    IN IF event.kind \notin 6000..6999 THEN calc.out = {}
       ELSE /\ Cardinality(calc.out) = 1
            /\ \A out \in calc.out :
                 /\ out.requestKind = event.kind - 1000
                 /\ out.requestKind \in 5000..5999
                 /\ out.dvmPubkey = event.pubkey
                 /\ out.requestEventId = firstOf("e")
                 /\ out.requesterPubkey = firstOf("p")
                 /\ firstOf("amount") = {} => out.amountSats = {}
                 /\ \A sats \in out.amountSats :
                      /\ ~sats.nan
                      /\ sats.val >= 0
                      /\ \E m \in out.amountMillisats :
                           ~m.nan /\ sats.val = m.val \div 1000

\* Is the string a non-negative integer in decimal digits?
IsNatural(str) == str # <<>> /\ \A i \in DOMAIN str : IsDigit(str[i])

\* The millisats of a receipt that counts for id: its amount is a
\* non-negative integer; any other receipt counts for nothing.
MillisatsFor(receipt, id) ==
  IF receipt.e = <<>> \/ Head(receipt.e) # id \/ receipt.description = {}
    THEN {}
  ELSE LET d == CHOOSE x \in receipt.description : TRUE
           amount == findTagValue(d.tags, "amount")
       IN IF ~d.valid THEN {}
          ELSE {ParseDigits(v, 0) : v \in {w \in amount : IsNatural(w)}}

RECURSIVE SatsFor(_, _)
\* The sum over the receipts that count for id of floor(millisats / 1000).
SatsFor(receipts, id) ==
  IF receipts = <<>> THEN 0
  ELSE (LET m == MillisatsFor(Head(receipts), id)
        IN IF m = {} THEN 0 ELSE (CHOOSE x \in m : TRUE) \div 1000)
       + SatsFor(Tail(receipts), id)

\* C34: every value of the Map queryZapsForEvents returns is a non-negative
\* integer: the sum, over the fetched receipts that name the id, of
\* floor(millisats / 1000); a receipt without description tag, with a
\* description that does not parse, or with an amount that is missing or is
\* no non-negative integer adds nothing and leaves the other receipts' sum
\* for the id as it is.
C34_ZapTotalsSumValidReceipts ==
  calc.op = "queryZapsForEvents" =>
    \A id \in calc.out.has :
      /\ ~calc.out.val[id].nan
      /\ calc.out.val[id].val >= 0
      /\ calc.out.val[id].val = SatsFor(calc.receipts, id)

\* C35: generateReceiptCandidate and publishReceipt raise on a DVM result
\* without provider key or without result event id; otherwise, when a rating
\* was supplied the rating of the result is an integer from 1 to 5 (1 for a
\* value below 1, 5 for one above 5) and the comment has the part
\* rating:R/5 for it; the rating is absent and the part left out only when
\* none was supplied.
C35_RatingClamped ==
  calc.op \in {"generateReceiptCandidate", "publishReceipt"} =>
    LET out == calc.out
        rated == {i \in DOMAIN out.comment : out.comment[i].seg = "rating"}
    IN IF calc.dvmResult.dvmPubkey = "" \/ calc.dvmResult.resultEventId = ""
         THEN out.err # ""
         ELSE /\ out.err = ""
              /\ out.rating \subseteq 1..5
              /\ (out.rating = {}) <=> (calc.rating = {})
              /\ \A x \in calc.rating :
                   /\ x < 10 => out.rating = {1}
                   /\ x > 50 => out.rating = {5}
              /\ {out.comment[i].value : i \in rated} = out.rating

\* C40: watchDVMResults calls the user callback at most once per event id
\* for as long as the watcher lives, also when several relays deliver the
\* event or a relay delivers it again after a reconnect; and the id is
\* checked and marked before the handler's first await: a callback is called
\* only in a step that finds the id unmarked and marks it, and every
\* suspended handler's id is marked.
C40_CallbackOncePerEvent ==
  [][calc.op = "watchDVMResults" /\ calc'.op = "watchDVMResults" =>
       \A id \in WatchIds :
         /\ calc'.calls[id] <= 1
         /\ calc'.calls[id] # calc.calls[id] =>
              id \notin calc.seen /\ id \in calc'.seen
         /\ \A h \in calc'.handlers : h.id \in calc'.seen]_vars

\* The result event was delivered by both relays and by one of them again
\* after its reconnect, and the callback was called for it.
C40_Witness ==
  /\ calc.op = "watchDVMResults"
  /\ calc.calls["e1"] = 1
  /\ \E r \in WatchRelays :
       {<<r, 1>>, <<r, 2>>} \subseteq calc.delivered["e1"]
  /\ {d[1] : d \in calc.delivered["e1"]} = WatchRelays

\* ------------------------------------------------------------------------
\* Relay aggregation: properties
\* ------------------------------------------------------------------------

\* The events the attestation filter of the last call selects on the relays,
\* self-attestations aside.
Candidates(q, relays) ==
  {ev \in relays : /\ ev.kind = 1985
                   /\ ev.L = NAMESPACE
                   /\ ev.p = q.pubkey
                   /\ ev.pubkey # q.pubkey
                   /\ (q.type # "" /\ q.type \in VALID_TYPES) => ev.l = q.type}

\* Some kind-5 event by the author of ev names ev.
DeletedByAuthor(ev, relays) ==
  \E d \in relays : d.kind = 5 /\ d.pubkey = ev.pubkey /\ ev.id \in d.e

\* Some deletion of kind-1985 events by the author of ev names ev.
RevokedByAuthor(ev, relays) ==
  \E d \in relays : /\ d.kind = 5
                    /\ d.k = "1985"
                    /\ d.pubkey = ev.pubkey
                    /\ ev.id \in d.e

BreakdownIds(score) == {score.breakdown[i].id : i \in 1..Len(score.breakdown)}

\* C3: queryAttestations with includeRevoked false leaves out an attestation
\* that matches the filter only if a deletion written by that attestation's
\* own author names its id; a deletion by another attester never removes it.
C3_RevocationOnlyByAuthor ==
  (last.op = "queryAttestations" /\ ~last.includeRevoked) =>
    \A ev \in Candidates(last, net) :
      ev \notin Range(last.events) => DeletedByAuthor(ev, net)

\* C4: with includeRevoked false no attestation named by a k=1985 deletion of
\* its own author is returned by queryAttestations or appears in the
\* breakdown of a score, and a target all of whose attestations are revoked
\* by their authors scores exactly like the empty input.
C4_RevokedNeverScored ==
  /\ (last.op = "queryAttestations" /\ ~last.includeRevoked) =>
       \A ev \in Range(last.events) : ~RevokedByAuthor(ev, net)
  /\ last.op = "calculateTrustScore" =>
       /\ \A ev \in net :
            RevokedByAuthor(ev, net) => ev.id \notin BreakdownIds(last.score)
       /\ (\A ev \in Candidates(last, net) : RevokedByAuthor(ev, net)) =>
            last.score = placeholder

\* K is scored while the relays hold A's attestation about K and A's
\* revocation of it, and nothing else about K: the score is the empty one.
C4_Witness ==
  /\ last.op = "calculateTrustScore"
  /\ last.pubkey = "K"
  /\ \E ev \in Candidates(last, net) : RevokedByAuthor(ev, net)
  /\ \A ev \in Candidates(last, net) : RevokedByAuthor(ev, net)
  /\ last.score.raw = 0 /\ last.score.display = 0

\* C5: every attestation queryAttestations returns, and every attestation in
\* the breakdown or the counts of a score, has a signature that verifies.
C5_OnlyVerifiedEvents ==
  /\ last.op = "queryAttestations" =>
       \A ev \in Range(last.events) : ev.sigOk
  /\ last.op = "calculateTrustScore" =>
       /\ \A ev \in net : ~ev.sigOk => ev.id \notin BreakdownIds(last.score)
       /\ last.score = TrustScore(last.pubkey, {ev \in net : ev.sigOk}, now)

\* C6: queryAttestations(target) returns no event written by target, and the
\* score of target is the score over the relays' events without the
\* attestations target wrote about itself.
C6_SelfAttestationInvariance ==
  /\ last.op = "queryAttestations" =>
       \A ev \in Range(last.events) : ev.pubkey # last.pubkey
  /\ last.op = "calculateTrustScore" =>
       last.score =
         TrustScore(last.pubkey,
                    {ev \in net : ~(ev.kind = 1985 /\ ev.pubkey = last.pubkey
                                    /\ ev.p = last.pubkey)},
                    now)

\* K is scored while the relays hold a positive and a negative attestation
\* of K about K next to an attestation by another peer that counts.
C6_Witness ==
  /\ last.op = "calculateTrustScore"
  /\ last.pubkey = "K"
  /\ \E ev \in net : ev.pubkey = "K" /\ ev.p = "K" /\ ev.l \in POSITIVE_TYPES
  /\ \E ev \in net : ev.pubkey = "K" /\ ev.p = "K" /\ ev.l \in NEGATIVE_TYPES
  /\ last.score.positiveCount > 0

=============================================================================
